---- MODULE Spec2Model ----
(***************************************************************************)
(* A model of the API Chaos Monkey proxy: the in-memory state store        *)
(* (state.ts), the rule matcher, token buckets and chaos pipeline          *)
(* (chaos-engine.ts), the management routes (api.ts) and the proxy         *)
(* handler (the pipeline-based proxy middleware).                          *)
(*                                                                         *)
(* Strings that the code inspects character by character (paths, path      *)
(* patterns) are sequences of one-character strings.  Optional numeric     *)
(* fields that are absent hold Undefined.                                  *)
(***************************************************************************)
EXTENDS Integers, Sequences, FiniteSets, TLC

VARIABLES
    proxyConfig,    \* state.ts proxyConfig: [targetUrl, enabled]
    chaosRules,     \* state.ts chaosRules: the Map's entries in insertion order
    requestLogs,    \* state.ts requestLogs: oldest first
    tokenBuckets,   \* chaos-engine.ts tokenBuckets: key -> bucket
    now,            \* Date.now(), in ms since the process started
    reqs,           \* one record per proxied request (the handler's locals and position)
    sent,           \* messages handed to broadcast(), in order
    matchIn,        \* the last (path, method) handed to findMatchingRule directly
    matchOut,       \* what that call returned
    configOut,      \* the body of the last PUT /config response
    logRun,         \* the log store driven alone: appends so far, the last read
    store,          \* the rule store as objects: the Map, the heap, what callers hold
    bucketRun,      \* one token bucket driven alone: its calls and their outcomes
    corruptRun,     \* corruptJsonBody called alone: the body, the draws, the result
    clients         \* websocket.ts wss.clients: each socket's state and what it was sent

\* the variables that only the store and bucket specifications below use
aux == <<logRun, store, bucketRun, corruptRun>>

vars == <<proxyConfig, chaosRules, requestLogs, tokenBuckets, now, reqs, sent,
          matchIn, matchOut, configOut, aux, clients>>

\* JavaScript's undefined, for an optional field that is absent
Undefined == -1

Min(a, b) == IF a < b THEN a ELSE b
Max(a, b) == IF a > b THEN a ELSE b

(***************************************************************************)
(* Rule matching (chaos-engine.ts, findMatchingRule and its helpers)       *)
(***************************************************************************)

\* String.prototype.toUpperCase on the method tokens the model uses
toUpperCase(m) ==
    CASE m = "get"  -> "GET"
      [] m = "Get"  -> "GET"
      [] m = "post" -> "POST"
      [] OTHER      -> m

\* Array.prototype.includes
ArrayIncludes(arr, x) == \E i \in DOMAIN arr : arr[i] = x

matchesMethod(allowed, method) ==
    IF ArrayIncludes(allowed, "*") THEN TRUE
    ELSE ArrayIncludes(allowed, toUpperCase(method))

\* new RegExp(pattern) throws a SyntaxError on these patterns: an unterminated
\* group, or a quantifier with nothing to repeat.  The pattern alphabet of the
\* model is the literals "/", "a", "b" and the metacharacters ".", "*", "(".
RegExpCompiles(pattern) ==
    /\ \A i \in DOMAIN pattern : pattern[i] # "("
    /\ \A i \in DOMAIN pattern :
          pattern[i] = "*" => (i > 1 /\ pattern[i - 1] # "*")

AtomMatches(atom, ch) == atom = "." \/ atom = ch

\* The backtracking match of pattern[i..] at position j of str; a match need
\* not reach the end of str (the pattern carries no anchors).
RECURSIVE MatchAt(_, _, _, _)
MatchAt(pattern, i, str, j) ==
    IF i > Len(pattern) THEN TRUE
    ELSE IF i + 1 <= Len(pattern) /\ pattern[i + 1] = "*"
    THEN \/ MatchAt(pattern, i + 2, str, j)
         \/ /\ j <= Len(str)
            /\ AtomMatches(pattern[i], str[j])
            /\ MatchAt(pattern, i, str, j + 1)
    ELSE /\ j <= Len(str)
         /\ AtomMatches(pattern[i], str[j])
         /\ MatchAt(pattern, i + 1, str, j + 1)

\* RegExp.prototype.test: a match starting anywhere in str
RegExpTest(pattern, str) ==
    \E j \in 1..(Len(str) + 1) : MatchAt(pattern, 1, str, j)

\* String.prototype.includes
StringIncludes(str, sub) ==
    \E k \in 0..(Len(str) - Len(sub)) :
        \A i \in 1..Len(sub) : str[k + i] = sub[i]

\* The result of a call that may throw: threw, or the value returned
Returned(v) == [threw |-> FALSE, value |-> v]
Threw == [threw |-> TRUE, value |-> FALSE]

\* matchesPath without the try/catch: the SyntaxError escapes
matchesPathNoCatch(pattern, path) ==
    IF RegExpCompiles(pattern) THEN Returned(RegExpTest(pattern, path)) ELSE Threw

\* try { new RegExp(pattern).test(path) } catch { path.includes(pattern) }
matchesPath(pattern, path) ==
    IF RegExpCompiles(pattern) THEN Returned(RegExpTest(pattern, path))
    ELSE Returned(StringIncludes(path, pattern))

\* The for loop of findMatchingRule from index i on: the index of the rule
\* returned (0 for null), or threw when matchesPath throws.
RECURSIVE FindFrom(_, _, _, _)
FindFrom(rules, i, path, method) ==
    IF i > Len(rules) THEN Returned(0)
    ELSE IF ~rules[i].enabled THEN FindFrom(rules, i + 1, path, method)
    ELSE IF ~matchesMethod(rules[i].methods, method)
         THEN FindFrom(rules, i + 1, path, method)
    ELSE LET p == matchesPath(rules[i].pathPattern, path) IN
         IF p.threw THEN [threw |-> TRUE, value |-> 0]
         ELSE IF ~p.value THEN FindFrom(rules, i + 1, path, method)
         ELSE Returned(i)

\* findMatchingRule that does not skip disabled rules
RECURSIVE FindFromIgnoringEnabled(_, _, _, _)
FindFromIgnoringEnabled(rules, i, path, method) ==
    IF i > Len(rules) THEN Returned(0)
    ELSE IF ~matchesMethod(rules[i].methods, method)
         THEN FindFromIgnoringEnabled(rules, i + 1, path, method)
    ELSE IF ~matchesPath(rules[i].pathPattern, path).value
         THEN FindFromIgnoringEnabled(rules, i + 1, path, method)
    ELSE Returned(i)

findMatchingRuleIgnoringEnabled(rules, path, method) ==
    FindFromIgnoringEnabled(rules, 1, path, method)

findMatchingRule(rules, path, method) == FindFrom(rules, 1, path, method)

(***************************************************************************)
(* Rules (types.ts ChaosRule, plus the rps / burst / timeoutMs / jitterMs  *)
(* fields that chaos-engine.ts reads)                                      *)
(***************************************************************************)

\* an errorMessage that is absent
NoMessage == "<undefined>"

\* a ?? b on optional numbers
Coalesce(a, b) == IF a = Undefined THEN b ELSE a

BaseRule(id, type, pattern, methods) ==
    [id |-> id, name |-> id, enabled |-> TRUE, pathPattern |-> pattern,
     methods |-> methods, chaosType |-> type,
     latencyMs |-> Undefined, latencyMinMs |-> Undefined, latencyMaxMs |-> Undefined,
     errorStatusCode |-> Undefined, errorMessage |-> NoMessage,
     failRate |-> Undefined, rps |-> Undefined, burst |-> Undefined,
     timeoutMs |-> Undefined, jitterMs |-> Undefined]

(***************************************************************************)
(* Token buckets (chaos-engine.ts).  tokens is a real number in the code;  *)
(* the model counts it in thousandths of a token, which is exact for the   *)
(* integer rps, burst and millisecond clock the model draws.               *)
(***************************************************************************)

Milli == 1000

\* what Math.ceil(x / 0) gives for x > 0
Infinity == 1000000000

BucketKey(method, ruleId) == <<method, ruleId>>

\* a getOrCreateBucket that leaves the rps and burst of a bucket it finds
getOrCreateBucketKeepsConfig(buckets, key, rps, burst, t) ==
    IF key \in DOMAIN buckets THEN buckets
    ELSE [k \in DOMAIN buckets \cup {key} |->
            IF k = key THEN [tokens |-> burst * Milli, lastRefill |-> t,
                             rps |-> rps, burst |-> burst]
            ELSE buckets[k]]

\* getOrCreateBucket: the registry after the call (the bucket is buckets[key])
getOrCreateBucket(buckets, key, rps, burst, t) ==
    LET bucket == IF key \in DOMAIN buckets THEN buckets[key]
                  ELSE [tokens |-> burst * Milli, lastRefill |-> t,
                        rps |-> rps, burst |-> burst]
    IN  [k \in DOMAIN buckets \cup {key} |->
            IF k = key THEN [bucket EXCEPT !.rps = rps, !.burst = burst]
            ELSE buckets[k]]

CeilDiv(a, b) == (a + b - 1) \div b

\* a tryConsumeToken that refills without moving lastRefill
tryConsumeTokenStaleRefill(bucket, t) ==
    LET refilled == Min(bucket.burst * Milli,
                        bucket.tokens + (t - bucket.lastRefill) * bucket.rps)
    IN  IF refilled >= Milli
        THEN [bucket |-> [bucket EXCEPT !.tokens = refilled - Milli],
              allowed |-> TRUE, retryAfter |-> 0]
        ELSE [bucket |-> [bucket EXCEPT !.tokens = refilled],
              allowed |-> FALSE, retryAfter |-> 1]

\* a tryConsumeToken that does not clamp the refill to burst
tryConsumeTokenNoClamp(bucket, t) ==
    LET refilled == bucket.tokens + (t - bucket.lastRefill) * bucket.rps
    IN  IF refilled >= Milli
        THEN [bucket |-> [bucket EXCEPT !.tokens = refilled - Milli, !.lastRefill = t],
              allowed |-> TRUE, retryAfter |-> 0]
        ELSE [bucket |-> [bucket EXCEPT !.tokens = refilled, !.lastRefill = t],
              allowed |-> FALSE, retryAfter |-> 1]

\* tryConsumeToken: the bucket after the call and what the call returns
tryConsumeToken(bucket, t) ==
    LET elapsedMs == t - bucket.lastRefill
        tokensToAdd == elapsedMs * bucket.rps
        refilled == Min(bucket.burst * Milli, bucket.tokens + tokensToAdd)
        tokensNeeded == Milli - refilled
        retryAfter == IF bucket.rps = 0 THEN Infinity
                      ELSE CeilDiv(tokensNeeded, Milli * bucket.rps)
    IN  IF refilled >= Milli
        THEN [bucket |-> [bucket EXCEPT !.tokens = refilled - Milli, !.lastRefill = t],
              allowed |-> TRUE, retryAfter |-> 0]
        ELSE [bucket |-> [bucket EXCEPT !.tokens = refilled, !.lastRefill = t],
              allowed |-> FALSE, retryAfter |-> Max(1, retryAfter)]

(***************************************************************************)
(* The chaos pipeline (chaos-engine.ts)                                    *)
(***************************************************************************)

\* Math.random() is rnd / RandDen for an rnd in 0 .. RandDen - 1
RandDen == 4
Rnd == 0..(RandDen - 1)

\* Math.floor(Math.random() * n)
RandomBelow(rnd, n) == (rnd * n) \div RandDen

\* one entry of actionsApplied: the tag, and the text or number it carries
Act(tag, s, n) == [tag |-> tag, s |-> s, n |-> n]

Response(status, body, headers) ==
    [statusCode |-> status, body |-> body, contentType |-> "application/json",
     headers |-> headers]

\* A PreProxyResult, with the registry the call leaves behind.  matchedRule and
\* immediateResponse are <<>> for null and <<x>> otherwise.  matched, sampled and
\* consumed count what the call did: rule lookups, drop-rate samples and
\* tryConsumeToken calls.
PreResult(skip, resp, durationMs, actions, rule, buckets, sampled, consumed) ==
    [threw |-> FALSE, skipUpstream |-> skip, immediateResponse |-> resp,
     durationMs |-> durationMs, actionsApplied |-> actions, matchedRule |-> rule,
     buckets |-> buckets, matched |-> 1, sampled |-> sampled, consumed |-> consumed]

DEFAULT_TIMEOUT_MS == 8000

\* a drop-rate step that also triggers on roll = failRate
DropRateStepInclusive(rule, actions, buckets, rnd) ==
    LET failRate == Coalesce(rule.failRate, 50) IN
    IF rnd * 100 <= failRate * RandDen
    THEN PreResult(TRUE,
             <<Response(429, "Too Many Requests (drop rate triggered)", <<>>)>>,
             Undefined, Append(actions, Act("drop_rate:triggered", "", failRate)),
             <<rule>>, buckets, 1, 0)
    ELSE PreResult(FALSE, <<>>, Undefined,
             Append(actions, Act("drop_rate:passed", "", failRate)),
             <<rule>>, buckets, 1, 0)

\* Step 2a, drop rate: roll = Math.random() * 100 against failRate
DropRateStep(rule, actions, buckets, rnd) ==
    LET failRate == Coalesce(rule.failRate, 50) IN
    IF rnd * 100 < failRate * RandDen     \* roll < failRate
    THEN PreResult(TRUE,
             <<Response(429, "Too Many Requests (drop rate triggered)", <<>>)>>,
             Undefined, Append(actions, Act("drop_rate:triggered", "", failRate)),
             <<rule>>, buckets, 1, 0)
    ELSE PreResult(FALSE, <<>>, Undefined,
             Append(actions, Act("drop_rate:passed", "", failRate)),
             <<rule>>, buckets, 1, 0)

\* JSON's null
Null == -2

\* JSON.stringify of a number: Infinity is written as null
JsonNumber(n) == IF n = Infinity THEN Null ELSE n

\* the body of the token bucket's 429 as the client parses it
RateLimitedJson(retryAfter) ==
    [message |-> "Too Many Requests (rate limited)",
     retryAfter |-> JsonNumber(retryAfter)]

\* Step 2b once tryConsumeToken has returned result and left the registry after
TokenBucketOutcome(rule, actions, result, after) ==
    IF result.allowed
    THEN PreResult(FALSE, <<>>, Undefined,
             Append(actions, Act("token_bucket:passed", "", 0)),
             <<rule>>, after, 0, 1)
    ELSE PreResult(TRUE,
             <<Response(429, RateLimitedJson(result.retryAfter),
                        <<[name |-> "Retry-After", value |-> result.retryAfter]>>)>>,
             Undefined,
             Append(actions, Act("token_bucket:blocked", "", result.retryAfter)),
             <<rule>>, after, 0, 1)

\* Step 2b on the registry got that getOrCreateBucket leaves
TokenBucketConsume(rule, actions, got, key, t) ==
    TokenBucketOutcome(rule, actions, tryConsumeToken(got[key], t),
                       [got EXCEPT ![key] = tryConsumeToken(got[key], t).bucket])

\* Step 2b, token bucket
TokenBucketStep(rule, actions, buckets, t, method) ==
    LET rps == Coalesce(rule.rps, 10)
        burst == Coalesce(rule.burst, rps)
        key == BucketKey(method, rule.id)
    IN  TokenBucketConsume(rule, actions,
                           getOrCreateBucket(buckets, key, rps, burst, t), key, t)

\* Step 3, timeout: the hang's duration, base plus or minus jitter
TimeoutStep(rule, actions, buckets, rnd) ==
    LET baseTimeout == Coalesce(rule.timeoutMs, DEFAULT_TIMEOUT_MS)
        jitter == Coalesce(rule.jitterMs, 0)
        jitterOffset == IF jitter > 0 THEN RandomBelow(rnd, jitter * 2) - jitter
                        ELSE 0
        durationMs == Max(0, baseTimeout + jitterOffset)
    IN  PreResult(TRUE, <<>>, durationMs,
             Append(actions, Act("timeout:triggered", "", durationMs)),
             <<rule>>, buckets, 0, 0)

\* the body of the forced error as the client parses it
ErrorJson(message) == [error |-> TRUE, message |-> message, chaosMonkey |-> TRUE]

\* a forced error that is recorded but lets the request go on to upstream
ErrorStepNotTerminal(rule, actions, buckets) ==
    PreResult(FALSE, <<>>, Undefined,
        Append(actions, Act("error", "", Coalesce(rule.errorStatusCode, 500))),
        <<rule>>, buckets, 0, 0)

\* Step 4, forced error
ErrorStep(rule, actions, buckets) ==
    LET statusCode == Coalesce(rule.errorStatusCode, 500)
        message == IF rule.errorMessage = NoMessage THEN "Internal Server Error"
                   ELSE rule.errorMessage
    IN  PreResult(TRUE, <<Response(statusCode, ErrorJson(message), <<>>)>>, Undefined,
             Append(actions, Act("error", "", statusCode)),
             <<rule>>, buckets, 0, 0)

\* Steps 2 to 4 for the rule matched
PipelineForRule(rule, actions, buckets, t, method, rnd) ==
    CASE rule.chaosType = "rate-limit"   -> DropRateStep(rule, actions, buckets, rnd)
      [] rule.chaosType = "token-bucket" ->
             TokenBucketStep(rule, actions, buckets, t, method)
      [] rule.chaosType = "timeout"      -> TimeoutStep(rule, actions, buckets, rnd)
      [] rule.chaosType = "error"        -> ErrorStep(rule, actions, buckets)
      [] OTHER -> PreResult(FALSE, <<>>, Undefined, actions, <<rule>>, buckets, 0, 0)

\* Step 1 once findMatchingRule has returned found
PipelineAfterMatch(found, rules, buckets, t, method, rnd) ==
    IF found.threw
    THEN [PreResult(FALSE, <<>>, Undefined, <<>>, <<>>, buckets, 0, 0)
            EXCEPT !.threw = TRUE]
    ELSE IF found.value = 0
    THEN PreResult(FALSE, <<>>, Undefined, <<Act("match:no_rule", "", 0)>>, <<>>,
                   buckets, 0, 0)
    ELSE PipelineForRule(rules[found.value],
                         <<Act("match", rules[found.value].name, 0)>>,
                         buckets, t, method, rnd)

\* runPreProxyPipeline(path, method) at time t on the given rules and registry;
\* rnd is the draw of its one Math.random() call (step 2a or step 3).
runPreProxyPipeline(rules, buckets, t, path, method, rnd) ==
    PipelineAfterMatch(findMatchingRule(rules, path, method), rules, buckets, t,
                       method, rnd)

\* getPostProxyEffects(rule); rnd is the draw of its Math.random() call
getPostProxyEffects(rule, rnd) ==
    IF rule = <<>> THEN [delayMs |-> 0, corruptResponse |-> FALSE, actionsApplied |-> <<>>]
    ELSE LET r == rule[1]
             delayMs == IF r.chaosType # "latency" THEN 0
                        ELSE IF r.latencyMs # Undefined THEN r.latencyMs
                        ELSE LET min == Coalesce(r.latencyMinMs, 100)
                                 max == Coalesce(r.latencyMaxMs, 1000)
                             IN  RandomBelow(rnd, max - min + 1) + min
         IN  [delayMs |-> delayMs,
              corruptResponse |-> (r.chaosType = "corrupt"),
              actionsApplied |-> IF r.chaosType = "latency"
                                 THEN <<Act("latency", "", delayMs)>> ELSE <<>>]

(***************************************************************************)
(* The state store (state.ts)                                              *)
(***************************************************************************)

\* A JavaScript value that may be undefined: <<>> is undefined, <<v>> is v
None == <<>>
Some(v) == <<v>>

MAX_LOGS == 1000

\* an addLog that trims the newest entries
addLogKeepsOldest(logs, ref) ==
    IF Len(logs) + 1 > MAX_LOGS THEN SubSeq(Append(logs, ref), 1, MAX_LOGS)
    ELSE Append(logs, ref)

\* addLog: requestLogs holds references to the handlers' logEntry objects; the
\* model names such an object by the index of its request in reqs.
addLog(logs, ref) ==
    LET pushed == Append(logs, ref) IN
    IF Len(pushed) > MAX_LOGS
    THEN SubSeq(pushed, Len(pushed) - MAX_LOGS + 1, Len(pushed))
    ELSE pushed

\* updateConfig: { ...proxyConfig, ...updates }.  updates.keys are the own
\* properties of the updates object; a property that is present overwrites the
\* stored one whatever its value, undefined included.
updateConfig(cfg, updates) ==
    [targetUrl |-> IF "targetUrl" \in updates.keys THEN updates.targetUrl
                   ELSE cfg.targetUrl,
     enabled   |-> IF "enabled" \in updates.keys THEN updates.enabled
                   ELSE cfg.enabled]

\* apiRouter.put('/config'): const { targetUrl, enabled } = req.body, then
\* updateConfig({ targetUrl, enabled }).  body.f is None when the JSON body
\* has no field f.
PutConfigUpdates(body) ==
    [keys |-> {"targetUrl", "enabled"},
     targetUrl |-> body.targetUrl, enabled |-> body.enabled]

\* !config.targetUrl is false
HasTargetUrl(cfg) == cfg.targetUrl # None /\ cfg.targetUrl[1] # ""

\* config.enabled is truthy
ChaosEnabled(cfg) == cfg.enabled # None /\ cfg.enabled[1]

(***************************************************************************)
(* The proxy handler (proxy middleware, proxyHandler)                      *)
(***************************************************************************)

\* statusCode of a log entry: absent, a number, or the literal "timeout"
StatusNone == [tag |-> "undefined", n |-> 0]
StatusNum(n) == [tag |-> "number", n |-> n]
StatusTimeout == [tag |-> "timeout", n |-> 0]

TIMEOUT_CHAOS_MAX_DURATION_MS == 5 * 60 * 1000

\* new URL(req.path, config.targetUrl) throws unless targetUrl is an absolute URL
UrlConstructs(targetUrl) == targetUrl = "http://up"

\* the logEntry object as the handler creates it
NewLogEntry(id, path, method) ==
    [id |-> id, method |-> method, path |-> path, chaosApplied |-> FALSE,
     chaosType |-> "", chaosRuleId |-> "", chaosRuleName |-> "",
     statusCode |-> StatusNone, responseTime |-> Undefined,
     chaosDetails |-> "", actionsApplied |-> <<>>]

\* the handler's stamp of the matched rule on the log entry
StampRule(entry, matched) ==
    IF matched = <<>> THEN entry
    ELSE [entry EXCEPT !.chaosApplied = TRUE, !.chaosType = matched[1].chaosType,
                       !.chaosRuleId = matched[1].id,
                       !.chaosRuleName = matched[1].name]

\* A request whose handler has just been entered.  pc is the handler's position;
\* preRuns, matches, samples, consumes, upstreamCalls and logged count the calls
\* made on the request's behalf; alone says that no other request was in flight
\* when it arrived; closed says that the client has closed the connection while
\* the handler was waiting for the upstream call or for the latency delay.
NewReq(path, method, t) ==
    [path |-> path, method |-> method, pc |-> "received", startTime |-> t,
     enabled |-> FALSE, actionsApplied |-> <<>>, logEntry |-> <<>>,
     matchedRule |-> <<>>, response |-> <<>>, up |-> <<>>,
     timerMs |-> Undefined, deadline |-> Undefined, heldMs |-> Undefined,
     upstreamCalls |-> 0, preRuns |-> 0, matches |-> 0, samples |-> 0,
     consumes |-> 0, logged |-> 0, corrupt |-> FALSE, alone |-> FALSE,
     closed |-> FALSE]

\* what res.status(..).send(..) puts on the wire
Wire(status, headers, body) == [statusCode |-> status, headers |-> headers, body |-> body]

\* the hang branch stamping the log entry with the elapsed time, as the other
\* branches do
HangLogEntryElapsed(entry, actions, timeoutMs, t, startTime) ==
    [entry EXCEPT !.actionsApplied = actions, !.chaosDetails = "actions",
                  !.statusCode = StatusTimeout, !.responseTime = t - startTime]

\* The hang branch's stamp of the log entry: logEntry.statusCode = 'timeout',
\* logEntry.responseTime = timeoutMs.
HangLogEntry(entry, actions, timeoutMs, t, startTime) ==
    [entry EXCEPT !.actionsApplied = actions, !.chaosDetails = "actions",
                  !.statusCode = StatusTimeout, !.responseTime = timeoutMs]

\* the delay handed to setTimeout for destroyTimer
DestroyTimerDelay(timeoutMs) == timeoutMs

\* res.status(code).send(body) writes the head for a code in 100..999 and throws
\* a RangeError for any other: the handler's promise rejects with nothing written
StatusWritable(code) == code >= 100 /\ code <= 999

\* What one synchronous stretch of the handler leaves behind: the request's
\* record, the bucket registry, and whether it called addLog and broadcast.
Out(req, buckets, log) ==
    [req |-> req, buckets |-> buckets, log |-> log, earlier |-> <<>>]

\* proxyHandler from the return of runPreProxyPipeline (pre) to its first await
\* or its return; base is the request as it stood before the call.
HandlerAfterPipeline(id, base, pre, buckets, t) ==
    LET ran == [base EXCEPT !.enabled = TRUE, !.preRuns = 1,
                            !.matches = pre.matched, !.samples = pre.sampled,
                            !.consumes = pre.consumed,
                            !.matchedRule = pre.matchedRule,
                            !.actionsApplied = pre.actionsApplied]
        entry == StampRule(NewLogEntry(id, base.path, base.method), pre.matchedRule)
    IN
    IF pre.threw THEN Out([ran EXCEPT !.pc = "rejected"], buckets, FALSE)
    ELSE IF ~pre.skipUpstream
    THEN Out([ran EXCEPT !.pc = "upstream", !.upstreamCalls = 1,
                         !.logEntry = <<entry>>,
                         !.actionsApplied = Append(pre.actionsApplied,
                                                   Act("upstream:request", "", 0))],
             pre.buckets, FALSE)
    ELSE IF pre.immediateResponse # <<>>
    THEN LET resp == pre.immediateResponse[1] IN
         Out([ran EXCEPT !.pc = IF StatusWritable(resp.statusCode) THEN "responded"
                                ELSE "rejected",
                         !.logEntry = <<[entry EXCEPT
                              !.actionsApplied = pre.actionsApplied,
                              !.chaosDetails = "actions",
                              !.statusCode = StatusNum(resp.statusCode),
                              !.responseTime = t - base.startTime]>>,
                         !.logged = 1,
                         !.response = IF StatusWritable(resp.statusCode)
                                      THEN <<Wire(resp.statusCode, resp.headers,
                                                  resp.body)>>
                                      ELSE <<>>],
             pre.buckets, TRUE)
    ELSE LET timeoutMs == Coalesce(pre.durationMs, 8000) IN
         Out([ran EXCEPT !.pc = "hang",
                         !.logEntry = <<HangLogEntry(entry, pre.actionsApplied,
                                                     timeoutMs, t, base.startTime)>>,
                         !.logged = 1,
                         !.timerMs = DestroyTimerDelay(timeoutMs),
                         !.deadline = t + DestroyTimerDelay(timeoutMs)],
             pre.buckets, TRUE)

\* a handler that runs the pipeline whatever config.enabled says
HandlerFromIgnoresEnabled(id, base, cfg, rules, buckets, t, rnd) ==
    IF ~HasTargetUrl(cfg)
    THEN Out([base EXCEPT !.pc = "responded",
                          !.response = <<Wire(503, <<>>, "No target URL configured")>>],
             buckets, FALSE)
    ELSE IF ~UrlConstructs(cfg.targetUrl[1])
    THEN Out([base EXCEPT !.pc = "responded",
                          !.response = <<Wire(502, <<>>, "Invalid target URL")>>],
             buckets, FALSE)
    ELSE HandlerAfterPipeline(id, base,
             runPreProxyPipeline(rules, buckets, t, base.path, base.method, rnd),
             buckets, t)

\* proxyHandler from its entry, on the request record base, up to the call of
\* runPreProxyPipeline and on through HandlerAfterPipeline.
HandlerFrom(id, base, cfg, rules, buckets, t, rnd) ==
    IF ~HasTargetUrl(cfg)
    THEN Out([base EXCEPT !.pc = "responded",
                          !.response = <<Wire(503, <<>>, "No target URL configured")>>],
             buckets, FALSE)
    ELSE IF ~UrlConstructs(cfg.targetUrl[1])
    THEN Out([base EXCEPT !.pc = "responded",
                          !.response = <<Wire(502, <<>>, "Invalid target URL")>>],
             buckets, FALSE)
    ELSE IF ~ChaosEnabled(cfg)
    THEN Out([base EXCEPT !.pc = "upstream", !.upstreamCalls = 1,
                          !.logEntry = <<NewLogEntry(id, base.path, base.method)>>,
                          !.actionsApplied = <<Act("chaos:disabled", "", 0),
                                               Act("upstream:request", "", 0)>>],
             buckets, FALSE)
    ELSE HandlerAfterPipeline(id, base,
             runPreProxyPipeline(rules, buckets, t, base.path, base.method, rnd),
             buckets, t)

\* proxyHandler from its entry to its first await (or its return).
HandlerStart(id, cfg, rules, buckets, t, path, method, rnd, alone) ==
    HandlerFrom(id, [NewReq(path, method, t) EXCEPT !.alone = alone],
                cfg, rules, buckets, t, rnd)

\* error.cause?.code || 'unknown': NoCode is an error without a cause or code
NoCode == "<undefined>"
CauseCode(code) == IF code = NoCode THEN "unknown" ELSE code

\* the message the catch block picks for the error's code
ProxyErrorMessage(code) ==
    CASE code = "ECONNREFUSED" -> "Connection refused by upstream server"
      [] code = "ENOTFOUND" -> "DNS resolution failed"
      [] code \in {"ETIMEDOUT", "ESOCKETTIMEDOUT"} -> "Upstream request timed out"
      [] OTHER -> "Failed to reach upstream server"

\* `Proxy error: ${message}`
ProxyErrorDetails(message) == <<"Proxy error: ", message>>

\* sendErrorResponse(res, status, message, details): the JSON body
ErrorResponseJson(message) == [error |-> TRUE, message |-> message]

\* a catch block that answers 502 without logging
HandlerCatchUnlogged(req, buckets, t, code) ==
    Out([req EXCEPT !.pc = "responded",
                    !.actionsApplied = Append(req.actionsApplied,
                                              Act("upstream:error", CauseCode(code), 0)),
                    !.response = <<Wire(502, <<>>,
                                       ErrorResponseJson(ProxyErrorMessage(code)))>>],
        buckets, FALSE)

\* The catch block: the upstream call failed with the given error code.
HandlerCatch(req, buckets, t, code) ==
    LET actions == Append(req.actionsApplied,
                          Act("upstream:error", CauseCode(code), 0))
    IN
    Out([req EXCEPT !.pc = "responded", !.actionsApplied = actions,
                    !.logEntry = <<[req.logEntry[1] EXCEPT
                         !.statusCode = StatusNum(502),
                         !.responseTime = t - req.startTime,
                         !.actionsApplied = actions,
                         !.chaosDetails = ProxyErrorDetails(ProxyErrorMessage(code))]>>,
                    !.logged = req.logged + 1,
                    !.response = <<Wire(502, <<>>,
                                       ErrorResponseJson(ProxyErrorMessage(code)))>>],
        buckets, TRUE)

\* fetchResponse.headers.forEach(.. res.setHeader(key, value)): the upstream's
\* headers, of which the model keeps content-type and trailer, are forwarded as
\* they came (SKIP_RESPONSE_HEADERS holds neither)
ForwardedHeaders(up) ==
    <<[name |-> "content-type",
       value |-> IF up.json THEN "application/json" ELSE "text/plain"]>>
    \o (IF up.trailer THEN <<[name |-> "trailer", value |-> "expires"]>> ELSE <<>>)

\* res.status(..).send(..) throws when it has to write this head: send() sets
\* Content-Length, and the HTTP layer refuses a Trailer header on a message
\* that is not chunked (ERR_HTTP_TRAILER_INVALID)
SendThrows(headers) == \E k \in DOMAIN headers : headers[k].name = "trailer"

\* The response write after the success entry was logged threw: the throw is
\* inside the try, so the catch block runs on the request as logged.  It
\* stamps the same entry 502, appends and broadcasts it again, and its own
\* sendErrorResponse writes to the response that still holds the header, so
\* that nothing is sent and the handler's promise rejects.
HandlerWriteThrew(logged, buckets, t) ==
    [HandlerCatch(logged, buckets, t, NoCode)
        EXCEPT !.earlier = logged.logEntry,
               !.req.pc = "rejected",
               !.req.response = <<>>]

\* corruptJsonBody's strategies array
Strategies == <<"truncate", "invalid_chars", "break_syntax", "remove_key">>

\* The rest of the try block once the delay (if any) is over: corruption, the
\* log entry, the response.  rnd is the draw that picks corruptJsonBody's strategy;
\* the sleep does not keep it, so the handler resumes with a draw of its own.
HandlerFinish(req, buckets, t, rnd) ==
    LET corrupts == req.corrupt /\ req.up[1].json
        strategy == Strategies[RandomBelow(rnd, Len(Strategies)) + 1]
        actions == IF corrupts
                   THEN Append(req.actionsApplied, Act("corrupt_json", strategy, 0))
                   ELSE req.actionsApplied
        logged == [req EXCEPT !.actionsApplied = actions,
                              !.logEntry = <<[req.logEntry[1] EXCEPT
                                   !.statusCode = StatusNum(req.up[1].status),
                                   !.responseTime = t - req.startTime,
                                   !.actionsApplied = actions,
                                   !.chaosDetails = "actions"]>>,
                              !.logged = req.logged + 1]
    IN  IF SendThrows(ForwardedHeaders(req.up[1]))
        THEN HandlerWriteThrew(logged, buckets, t)
        ELSE Out([logged EXCEPT
                    !.pc = "responded",
                    !.response = <<Wire(req.up[1].status, ForwardedHeaders(req.up[1]),
                                        IF corrupts THEN "corrupted" ELSE "upstream")>>],
                 buckets, TRUE)

\* The try block from getPostProxyEffects' return (postEffects) to the await of
\* delay(), or to the end when there is no delay; got is the request with the
\* upstream response recorded, after the registry the stretch leaves.
HandlerAfterEffects(got, postEffects, after, t, rnd) ==
    IF postEffects.delayMs > 0
    THEN Out([got EXCEPT !.pc = "sleep",
                         !.corrupt = postEffects.corruptResponse,
                         !.actionsApplied = @ \o postEffects.actionsApplied,
                         !.timerMs = postEffects.delayMs,
                         !.deadline = t + postEffects.delayMs],
             after, FALSE)
    ELSE HandlerFinish([got EXCEPT !.corrupt = postEffects.corruptResponse],
                       after, t, rnd)

\* a second run whose actions are pushed onto the request's actionsApplied too
HandlerAfterSecondRunKeepsActions(req, again, buckets, t, up, rnd) ==
    LET got == [req EXCEPT
                  !.up = <<up>>,
                  !.actionsApplied =
                      Append(req.actionsApplied, Act("upstream", "", up.status))
                         \o (IF req.enabled THEN again.actionsApplied ELSE <<>>),
                  !.preRuns = IF req.enabled THEN @ + 1 ELSE @,
                  !.matches = IF req.enabled THEN @ + again.matched ELSE @,
                  !.samples = IF req.enabled THEN @ + again.sampled ELSE @,
                  !.consumes = IF req.enabled THEN @ + again.consumed ELSE @]
    IN  HandlerAfterEffects(got,
            getPostProxyEffects(IF req.enabled THEN again.matchedRule ELSE <<>>, rnd),
            IF req.enabled THEN again.buckets ELSE buckets, t, rnd)

\* The try block from the return of the second runPreProxyPipeline call (again;
\* the call is made only when config.enabled) to getPostProxyEffects.
HandlerAfterSecondRun(req, again, buckets, t, up, rnd) ==
    LET got == [req EXCEPT
                  !.up = <<up>>,
                  !.actionsApplied = Append(req.actionsApplied,
                                            Act("upstream", "", up.status)),
                  !.preRuns = IF req.enabled THEN @ + 1 ELSE @,
                  !.matches = IF req.enabled THEN @ + again.matched ELSE @,
                  !.samples = IF req.enabled THEN @ + again.sampled ELSE @,
                  !.consumes = IF req.enabled THEN @ + again.consumed ELSE @]
    IN  IF req.enabled /\ again.threw
        THEN HandlerCatch(got, buckets, t, NoCode)
        ELSE HandlerAfterEffects(got,
                 getPostProxyEffects(IF req.enabled THEN again.matchedRule ELSE <<>>,
                                     rnd),
                 IF req.enabled THEN again.buckets ELSE buckets, t, rnd)

\* The try block from the resolution of fetch() and arrayBuffer() to the await
\* of delay(), or to the end when there is no delay.  The handler computes the
\* post-upstream rule with a second runPreProxyPipeline call.  The stretch calls
\* Math.random() for the drop rate, for the latency range or for the corruption
\* strategy, each for a different chaosType of the one rule matched here, so it
\* makes at most one draw: rnd.
HandlerAfterFetch(req, rules, buckets, t, up, rnd) ==
    CHOOSE out \in
        { HandlerAfterSecondRun(req, again, buckets, t, up, rnd) :
            again \in {runPreProxyPipeline(rules, buckets, t, req.path, req.method, rnd)} } :
        TRUE

(***************************************************************************)
(* Bounds and inputs                                                       *)
(***************************************************************************)

MaxReqs == 2        \* proxied requests in one run
MaxInFlight == 2    \* requests between their first await and their end
MaxTicks == 1       \* clock steps of TickMs
TickMs == 500
MaxMatchRules == 2  \* rules in a rule set handed to the matcher alone

\* the requests clients send, the responses upstream gives, the ways it fails
Requests == {[path |-> <<"/", "a">>, method |-> "GET"],
             [path |-> <<"/", "b">>, method |-> "POST"]}
UpstreamResults == {[status |-> 200, json |-> TRUE, trailer |-> FALSE],
                    [status |-> 500, json |-> FALSE, trailer |-> FALSE]}
ErrorCodes == {"ECONNREFUSED"}

AnyPath == <<".", "*">>
Wildcard == <<"*">>

TokenBucketRule(id, rps, burst) ==
    [BaseRule(id, "token-bucket", AnyPath, Wildcard) EXCEPT !.rps = rps, !.burst = burst]
TimeoutRule(id, pattern, timeoutMs, jitterMs) ==
    [BaseRule(id, "timeout", pattern, Wildcard) EXCEPT
        !.timeoutMs = timeoutMs, !.jitterMs = jitterMs]
ErrorRule(id, status, message) ==
    [BaseRule(id, "error", AnyPath, Wildcard) EXCEPT
        !.errorStatusCode = status, !.errorMessage = message]
LatencyRule(id, ms) ==
    [BaseRule(id, "latency", <<"/", "a", ".", "*">>, Wildcard) EXCEPT !.latencyMs = ms]
CorruptRule(id) == BaseRule(id, "corrupt", <<"/", "a">>, Wildcard)
RateLimitRule(id, failRate) ==
    [BaseRule(id, "rate-limit", AnyPath, Wildcard) EXCEPT !.failRate = failRate]

\* The rule sets a run starts from.  Each is a state of the store that
\* POST /rules followed by PUT /rules/:id reaches.
RuleSets ==
    { <<>>,
      <<TokenBucketRule("r1", 2, 2)>>,
      <<TimeoutRule("r1", <<"/", "a">>, 300, Undefined)>>,
      <<TimeoutRule("r1", AnyPath, 0, 0)>>,
      <<TimeoutRule("r1", AnyPath, 600000, Undefined)>>,
      <<TimeoutRule("r1", AnyPath, Undefined, 1)>>,
      <<ErrorRule("r1", 503, "nope")>>,
      <<LatencyRule("r1", 200)>>,
      <<CorruptRule("r1")>>,
      <<RateLimitRule("r1", 0)>>,
      <<RateLimitRule("r1", 100)>>,
      <<RateLimitRule("r1", Undefined)>>,
      <<TimeoutRule("r1", <<"/", "a">>, 300, Undefined), TokenBucketRule("r2", 2, 2)>>,
      <<[TimeoutRule("r1", AnyPath, 300, Undefined) EXCEPT !.enabled = FALSE],
        LatencyRule("r2", 200)>> }

GoodConfig == [targetUrl |-> Some("http://up"), enabled |-> Some(TRUE)]

\* the config states PUT /config reaches
Configs == [targetUrl : {None, Some(""), Some("up"), Some("http://up")},
            enabled : {None, Some(FALSE), Some(TRUE)}]

(***************************************************************************)
(* The proxy: initial states and steps                                     *)
(***************************************************************************)

Init ==
    /\ proxyConfig \in Configs
    /\ chaosRules \in RuleSets
    /\ proxyConfig = GoodConfig \/ chaosRules = <<ErrorRule("r1", 503, "nope")>>
    /\ requestLogs = <<>>
    /\ tokenBuckets = <<>>
    /\ now = 0
    /\ reqs = <<>>
    /\ sent = <<>>
    /\ matchIn = <<>>
    /\ matchOut = <<>>
    /\ configOut = <<>>
    /\ logRun = <<>>
    /\ store = <<>>
    /\ bucketRun = <<>>
    /\ corruptRun = <<>>
    /\ clients = <<>>

InFlight == {i \in DOMAIN reqs : reqs[i].pc \in {"upstream", "sleep", "hang"}}
Pending == {i \in DOMAIN reqs : reqs[i].pc \in {"sleep", "hang"}}
Due(i) == i \in Pending /\ \A j \in Pending : reqs[i].deadline <= reqs[j].deadline

\* broadcast({ type: 'new-log', log: logEntry }): the message is serialised at once
NewLogMessage(entry) == [type |-> "new-log", log |-> entry]

\* a broadcast that puts the message in front of what a client was sent before
broadcastNewestFirst(cls, message) ==
    [k \in DOMAIN cls |->
        IF cls[k].readyState = "OPEN"
        THEN [cls[k] EXCEPT !.inbox = <<message>> \o @]
        ELSE cls[k]]

\* broadcast(data): the message goes to every client whose readyState is OPEN;
\* a socket delivers what it was sent in the order of the send() calls
broadcast(cls, message) ==
    [k \in DOMAIN cls |->
        IF cls[k].readyState = "OPEN"
        THEN [cls[k] EXCEPT !.inbox = Append(@, message)]
        ELSE cls[k]]

\* the store and the wire after a stretch of request id's handler
Commit(id, out) ==
    \E o \in {out} :
       /\ reqs' = [k \in 1..Max(Len(reqs), id) |-> IF k = id THEN o.req ELSE reqs[k]]
       /\ tokenBuckets' = o.buckets
       /\ requestLogs' =
             IF o.log
             THEN addLog(IF o.earlier = <<>> THEN requestLogs
                         ELSE addLog(requestLogs, id), id)
             ELSE requestLogs
       /\ sent' =
             IF o.log
             THEN Append(IF o.earlier = <<>> THEN sent
                         ELSE Append(sent, NewLogMessage(o.earlier[1])),
                         NewLogMessage(o.req.logEntry[1]))
             ELSE sent
       /\ clients' =
             IF o.log
             THEN broadcast(IF o.earlier = <<>> THEN clients
                            ELSE broadcast(clients, NewLogMessage(o.earlier[1])),
                            NewLogMessage(o.req.logEntry[1]))
             ELSE clients

\* a request arrives and its handler runs to the first await
Receive ==
    /\ Len(reqs) < MaxReqs
    /\ Cardinality(InFlight) < MaxInFlight
    /\ \E rq \in Requests, rnd \in Rnd :
          Commit(Len(reqs) + 1,
                 HandlerStart(Len(reqs) + 1, proxyConfig, chaosRules, tokenBuckets,
                              now, rq.path, rq.method, rnd, InFlight = {}))
    /\ UNCHANGED <<proxyConfig, chaosRules, now, matchIn, matchOut, configOut, aux>>

\* fetch() and arrayBuffer() resolve with one of the given responses
UpstreamRespondsWith(results) ==
    /\ \E i \in DOMAIN reqs, up \in results, rnd \in Rnd :
          /\ reqs[i].pc = "upstream"
          /\ Commit(i, HandlerAfterFetch(reqs[i], chaosRules, tokenBuckets, now,
                                         up, rnd))
    /\ UNCHANGED <<proxyConfig, chaosRules, now, matchIn, matchOut, configOut, aux>>

\* fetch() and arrayBuffer() resolve
UpstreamResponds == UpstreamRespondsWith(UpstreamResults)

\* fetch() rejects with an error whose cause carries one of the codes
UpstreamFailsWith(codes) ==
    /\ \E i \in DOMAIN reqs, code \in codes :
          /\ reqs[i].pc = "upstream"
          /\ Commit(i, HandlerCatch(reqs[i], tokenBuckets, now, code))
    /\ UNCHANGED <<proxyConfig, chaosRules, now, matchIn, matchOut, configOut, aux>>

\* fetch() rejects
UpstreamFails == UpstreamFailsWith(ErrorCodes)

\* the latency delay() timer fires and the handler resumes
SleepDone ==
    /\ \E i \in DOMAIN reqs, rnd \in Rnd :
          /\ reqs[i].pc = "sleep"
          /\ Due(i)
          /\ now' = Max(now, reqs[i].deadline)
          /\ Commit(i, HandlerFinish(reqs[i], tokenBuckets, now', rnd))
    /\ UNCHANGED <<proxyConfig, chaosRules, matchIn, matchOut, configOut, aux>>

\* a destroyTimer callback that answers 504 instead of destroying the socket
TimerFiresWrites504 ==
    /\ \E i \in DOMAIN reqs :
          /\ reqs[i].pc = "hang"
          /\ Due(i)
          /\ now' = Max(now, reqs[i].deadline)
          /\ reqs' = [reqs EXCEPT ![i].pc = "responded",
                                  ![i].heldMs = now' - reqs[i].startTime,
                                  ![i].response = <<Wire(504, <<>>, "Gateway Timeout")>>]
    /\ UNCHANGED <<proxyConfig, chaosRules, requestLogs, tokenBuckets, sent,
                   matchIn, matchOut, configOut, aux, clients>>

\* destroyTimer fires: the socket is destroyed, nothing is written
TimerFires ==
    /\ \E i \in DOMAIN reqs :
          /\ reqs[i].pc = "hang"
          /\ Due(i)
          /\ now' = Max(now, reqs[i].deadline)
          /\ reqs' = [reqs EXCEPT ![i].pc = "reset",
                                  ![i].heldMs = now' - reqs[i].startTime]
    /\ UNCHANGED <<proxyConfig, chaosRules, requestLogs, tokenBuckets, sent,
                   matchIn, matchOut, configOut, aux, clients>>

\* a handler that registers no cleanup: the client goes away, the timer stays
ClientClosesKeepsTimer ==
    /\ \E i \in DOMAIN reqs :
          /\ reqs[i].pc = "hang"
          /\ ~reqs[i].closed
          /\ reqs' = [reqs EXCEPT ![i].closed = TRUE]
    /\ UNCHANGED <<proxyConfig, chaosRules, requestLogs, tokenBuckets, now, sent,
                   matchIn, matchOut, configOut, aux, clients>>

\* the client closes the connection of a hanging request: cleanup clears the timer
ClientCloses ==
    /\ \E i \in DOMAIN reqs :
          /\ reqs[i].pc = "hang"
          /\ reqs' = [reqs EXCEPT ![i].pc = "aborted",
                                  ![i].closed = TRUE,
                                  ![i].heldMs = now - reqs[i].startTime]
    /\ UNCHANGED <<proxyConfig, chaosRules, requestLogs, tokenBuckets, now, sent,
                   matchIn, matchOut, configOut, aux, clients>>

\* The client closes the connection of a request whose handler awaits fetch()
\* or delay().  The handler has registered no 'close' or 'aborted' listener on
\* this path, fetch() was given no AbortSignal and delay() keeps no handle of
\* its timer, so nothing runs at the disconnect: the pending work stays pending.
ClientDisconnects ==
    /\ \E i \in DOMAIN reqs :
          /\ reqs[i].pc \in {"upstream", "sleep"}
          /\ ~reqs[i].closed
          /\ reqs' = [reqs EXCEPT ![i].closed = TRUE]
    /\ UNCHANGED <<proxyConfig, chaosRules, requestLogs, tokenBuckets, now, sent,
                   matchIn, matchOut, configOut, aux, clients>>

\* time passes, up to the next timer that is due
Tick ==
    /\ now < MaxTicks * TickMs
    /\ \A i \in Pending : reqs[i].deadline >= now + TickMs
    /\ now' = now + TickMs
    /\ UNCHANGED <<proxyConfig, chaosRules, requestLogs, tokenBuckets, reqs, sent,
                   matchIn, matchOut, configOut, aux, clients>>

Next ==
    \/ Receive
    \/ UpstreamResponds
    \/ UpstreamFails
    \/ SleepDone
    \/ TimerFires
    \/ ClientCloses
    \/ Tick

Spec == Init /\ [][Next]_vars

(***************************************************************************)
(* The matcher on its own: findMatchingRule called on bounded rule sets    *)
(***************************************************************************)

\* patterns: two that compile (".*", "a*b") and two that do not ("a(", "*")
MatchPatterns == { <<".", "*">>, <<"a", "*", "b">>, <<"a", "(">>, <<"*">> }
MatchMethodLists == { <<"*">>, <<"POST", "GET">>, <<"get">> }
MatchPaths == { <<"/", "a">>, <<"/", "a", "b">>, <<"/", "a", "(">>, <<"/", "*">> }
MatchMethods == {"GET", "get", "POST"}

RuleIds == <<"r1", "r2", "r3", "r4", "r5">>

MatchRules == { [BaseRule("r", "error", pattern, methods) EXCEPT !.enabled = enabled] :
                  pattern \in MatchPatterns, methods \in MatchMethodLists,
                  enabled \in BOOLEAN }

\* rule sets of up to MaxMatchRules rules, ids in creation order
MatchRuleSets ==
    UNION { { [i \in 1..n |-> [f[i] EXCEPT !.id = RuleIds[i], !.name = RuleIds[i]]] :
                f \in [1..n -> MatchRules] } : n \in 0..MaxMatchRules }

InitMatch ==
    /\ proxyConfig = GoodConfig
    /\ chaosRules \in MatchRuleSets
    /\ requestLogs = <<>>
    /\ tokenBuckets = <<>>
    /\ now = 0
    /\ reqs = <<>>
    /\ sent = <<>>
    /\ matchIn = <<>>
    /\ matchOut = <<>>
    /\ configOut = <<>>
    /\ logRun = <<>>
    /\ store = <<>>
    /\ bucketRun = <<>>
    /\ corruptRun = <<>>
    /\ clients = <<>>

\* findMatchingRule(path, method) is called
MatchCall ==
    /\ \E path \in MatchPaths, method \in MatchMethods :
          /\ matchIn' = <<[path |-> path, method |-> method]>>
          /\ matchOut' = <<findMatchingRule(chaosRules, path, method)>>
    /\ UNCHANGED <<proxyConfig, chaosRules, requestLogs, tokenBuckets, now, reqs,
                   sent, configOut, aux, clients>>

NextMatch == MatchCall

SpecMatch == InitMatch /\ [][NextMatch]_vars

(***************************************************************************)
(* The config routes on their own (api.ts, state.ts)                       *)
(***************************************************************************)

\* the JSON bodies clients send to PUT /config
ConfigBodies == [targetUrl : {None, Some(""), Some("up"), Some("http://up")},
                 enabled : {None, Some(FALSE), Some(TRUE)}]

InitConfig ==
    /\ proxyConfig = [targetUrl |-> Some(""), enabled |-> Some(TRUE)]
    /\ chaosRules = <<>>
    /\ requestLogs = <<>>
    /\ tokenBuckets = <<>>
    /\ now = 0
    /\ reqs = <<>>
    /\ sent = <<>>
    /\ matchIn = <<>>
    /\ matchOut = <<>>
    /\ configOut = <<>>
    /\ logRun = <<>>
    /\ store = <<>>
    /\ bucketRun = <<>>
    /\ corruptRun = <<>>
    /\ clients = <<>>

\* PUT /api/config with the given body; configOut keeps the body, the config
\* stored before and the config returned
PutConfig ==
    /\ \E body \in ConfigBodies :
          /\ proxyConfig' = updateConfig(proxyConfig, PutConfigUpdates(body))
          /\ configOut' = <<[body |-> body, before |-> proxyConfig,
                             data |-> proxyConfig']>>
    /\ UNCHANGED <<chaosRules, requestLogs, tokenBuckets, now, reqs, sent,
                   matchIn, matchOut, aux, clients>>

NextConfig == PutConfig

SpecConfig == InitConfig /\ [][NextConfig]_vars

(***************************************************************************)
(* The log store on its own (state.ts addLog, getLogs, clearLogs; api.ts   *)
(* GET /logs).  A log entry is named by its serial number, counted from 1. *)
(***************************************************************************)

MaxAppends == 4     \* addLog calls in one run of the log store

\* Array.prototype.reverse on a copy
Reverse(s) == [i \in 1..Len(s) |-> s[Len(s) + 1 - i]]

\* getLogs(limit): limit ? logs.slice(0, limit) : logs, on the reversed copy.
\* limit is Undefined or a number >= 0; 0 and undefined are falsy.
getLogs(logs, limit) ==
    IF limit # Undefined /\ limit # 0
    THEN SubSeq(Reverse(logs), 1, Min(limit, Len(logs)))
    ELSE Reverse(logs)

\* clearLogs: requestLogs.length = 0
clearLogs(logs) == <<>>

DigitValue(ch) ==
    CASE ch = "0" -> 0 [] ch = "1" -> 1 [] ch = "2" -> 2 [] ch = "3" -> 3
      [] ch = "4" -> 4 [] ch = "5" -> 5 [] ch = "6" -> 6 [] ch = "7" -> 7
      [] ch = "8" -> 8 [] ch = "9" -> 9

\* parseInt(str, 10) on a string of decimal digits
RECURSIVE parseInt(_)
parseInt(str) ==
    IF Len(str) = 1 THEN DigitValue(str[1])
    ELSE 10 * parseInt(SubSeq(str, 1, Len(str) - 1)) + DigitValue(str[Len(str)])

\* GET /logs: req.query.limit ? parseInt(req.query.limit, 10) : undefined.
\* query is None without a limit parameter, else Some(its text); "" is falsy.
LogsLimit(query) ==
    IF query = None \/ query[1] = <<>> THEN Undefined ELSE parseInt(query[1])

\* the limit parameters clients send
LimitQueries == { None, Some(<<>>), Some(<<"0">>), Some(<<"1">>), Some(<<"2">>),
                  Some(<<"0", "2">>), Some(<<"1", "0", "0", "0">>),
                  Some(<<"1", "0", "0", "1">>) }

\* the log collection after n appends to an empty store
FilledLogs(n) == [i \in 1..n |-> i]

InitLogs ==
    /\ proxyConfig = GoodConfig
    /\ chaosRules = <<>>
    /\ \E n \in {0, MAX_LOGS - 2} :
          /\ requestLogs = FilledLogs(n)
          /\ logRun = [next |-> n + 1, floor |-> 1, appends |-> 0, out |-> <<>>]
    /\ tokenBuckets = <<>>
    /\ now = 0
    /\ reqs = <<>>
    /\ sent = <<>>
    /\ matchIn = <<>>
    /\ matchOut = <<>>
    /\ configOut = <<>>
    /\ store = <<>>
    /\ bucketRun = <<>>
    /\ corruptRun = <<>>
    /\ clients = <<>>

\* addLog(entry) with a new entry; logRun.next is its serial
AppendLog ==
    /\ logRun.appends < MaxAppends
    /\ requestLogs' = addLog(requestLogs, logRun.next)
    /\ logRun' = [logRun EXCEPT !.next = @ + 1, !.appends = @ + 1]
    /\ UNCHANGED <<proxyConfig, chaosRules, tokenBuckets, now, reqs, sent,
                   matchIn, matchOut, configOut, store, bucketRun, corruptRun, clients>>

\* GET /logs with the given limit parameter; logRun.out keeps the call: the
\* parameter, the collection as stored at the call, and the data returned
ReadLogs ==
    /\ \E query \in LimitQueries :
          logRun' = [logRun EXCEPT !.out =
                        <<[query |-> query, stored |-> requestLogs,
                           data |-> getLogs(requestLogs, LogsLimit(query))]>>]
    /\ UNCHANGED <<proxyConfig, chaosRules, requestLogs, tokenBuckets, now, reqs,
                   sent, matchIn, matchOut, configOut, store, bucketRun, corruptRun, clients>>

\* DELETE /logs; logRun.floor is the serial of the first entry appended after it
ClearLogs ==
    /\ requestLogs' = clearLogs(requestLogs)
    /\ logRun' = [logRun EXCEPT !.floor = logRun.next]
    /\ UNCHANGED <<proxyConfig, chaosRules, tokenBuckets, now, reqs, sent,
                   matchIn, matchOut, configOut, store, bucketRun, corruptRun, clients>>

NextLogs ==
    \/ AppendLog
    \/ ReadLogs
    \/ ClearLogs

SpecLogs == InitLogs /\ [][NextLogs]_vars

(***************************************************************************)
(* The rule store as JavaScript objects (state.ts; api.ts rule routes).    *)
(* store.objs is the heap of rule objects, an object being named by its    *)
(* index; a rule object's methods field holds the index in store.arrs of   *)
(* its methods array.  store.map is the chaosRules Map: its entries in     *)
(* insertion order, each a key and the object stored under it.             *)
(* store.cfgs is the heap of config objects and store.cfg the one that     *)
(* proxyConfig names.  store.held and store.heldCfg are the objects the    *)
(* last call returned to its caller.  In this specification chaosRules     *)
(* and proxyConfig are what the stored objects read as.                    *)
(***************************************************************************)

MaxStoreOps == 3    \* calls on the rule store in one run
MaxStoreMs == 1     \* how far Date.now() advances in one run of the rule store

\* a new object on the heap; its index is Len(st.objs) + 1
AllocObj(st, obj) == [st EXCEPT !.objs = Append(@, obj)]

\* a new array on the heap; its index is Len(st.arrs) + 1
AllocArr(st, elems) == [st EXCEPT !.arrs = Append(@, elems)]

\* the position of key in the Map, 0 when it has no such key
KeyIndex(map, key) ==
    IF \E k \in DOMAIN map : map[k].key = key
    THEN CHOOSE k \in DOMAIN map : map[k].key = key
    ELSE 0

\* a Map.prototype.set that moves a key it already holds to the end
MapSetMovesToEnd(map, key, a) ==
    Append(SelectSeq(map, LAMBDA e : e.key # key), [key |-> key, obj |-> a])

\* Map.prototype.set: a key the Map already holds keeps its position
MapSet(map, key, a) ==
    IF KeyIndex(map, key) # 0 THEN [map EXCEPT ![KeyIndex(map, key)].obj = a]
    ELSE Append(map, [key |-> key, obj |-> a])

\* Map.prototype.delete
MapDelete(map, key) == SelectSeq(map, LAMBDA e : e.key # key)

\* a rule object as its reader sees it: the methods array read out
RuleValue(st, a) == [st.objs[a] EXCEPT !.methods = st.arrs[st.objs[a].methods]]

\* Array.from(chaosRules.values()) as the matcher reads it
StoredRules(st) == [k \in DOMAIN st.map |-> RuleValue(st, st.map[k].obj)]

\* proxyConfig as its readers see it
StoredConfig(st) == st.cfgs[st.cfg]

\* what a store function leaves and returns: ret holds the objects returned
\* (<<>> for undefined)
StoreResult(st, ret) == [st |-> st, ret |-> ret]

\* { ...obj, ...patch }: patch.keys are the patch's own properties
Spread(obj, patch) ==
    [f \in DOMAIN obj |-> IF f \in patch.keys THEN patch.val[f] ELSE obj[f]]

\* an object seen as a patch: every property is its own
AsPatch(obj) == [keys |-> DOMAIN obj, val |-> obj]

\* getRules(): the stored objects themselves, in a new array
getRules(st) == StoreResult(st, [k \in DOMAIN st.map |-> st.map[k].obj])

\* getRule(id): { ...rule }, a new object that shares the methods array
getRule(st, id) ==
    IF KeyIndex(st.map, id) = 0 THEN StoreResult(st, <<>>)
    ELSE StoreResult(AllocObj(st, st.objs[st.map[KeyIndex(st.map, id)].obj]),
                     <<Len(st.objs) + 1>>)

\* createRule(rule), rule being the object at index r: chaosRules.set(rule.id,
\* { ...rule }), then getRule(rule.id)
createRule(st, r) ==
    getRule([AllocObj(st, st.objs[r]) EXCEPT
                !.map = MapSet(@, st.objs[r].id, Len(st.objs) + 1)],
            st.objs[r].id)

\* the object updateRule stores: { ...existing, ...updates, id }
UpdatedRule(existing, patch, id) == [Spread(existing, patch) EXCEPT !.id = id]

\* an updateRule that lets the patch's id through
updateRuleKeepsPatchId(st, id, patch) ==
    IF KeyIndex(st.map, id) = 0 THEN StoreResult(st, <<>>)
    ELSE StoreResult(
             [AllocObj(AllocObj(st, Spread(st.objs[st.map[KeyIndex(st.map, id)].obj],
                                           patch)),
                       Spread(st.objs[st.map[KeyIndex(st.map, id)].obj], patch))
                 EXCEPT !.map = MapSet(@, id, Len(st.objs) + 1)],
             <<Len(st.objs) + 2>>)

\* an updateRule that deletes the key before it sets it
updateRuleReinserts(st, id, patch) ==
    IF KeyIndex(st.map, id) = 0 THEN StoreResult(st, <<>>)
    ELSE StoreResult(
             [AllocObj(AllocObj(st, UpdatedRule(st.objs[st.map[KeyIndex(st.map, id)].obj],
                                                patch, id)),
                       UpdatedRule(st.objs[st.map[KeyIndex(st.map, id)].obj], patch, id))
                 EXCEPT !.map = MapSetMovesToEnd(@, id, Len(st.objs) + 1)],
             <<Len(st.objs) + 2>>)

\* updateRule(id, updates): stores the merged object under id and returns a
\* copy of it, or returns undefined when there is no such rule
updateRule(st, id, patch) ==
    IF KeyIndex(st.map, id) = 0 THEN StoreResult(st, <<>>)
    ELSE StoreResult(
             [AllocObj(AllocObj(st, UpdatedRule(st.objs[st.map[KeyIndex(st.map, id)].obj],
                                                patch, id)),
                       UpdatedRule(st.objs[st.map[KeyIndex(st.map, id)].obj], patch, id))
                 EXCEPT !.map = MapSet(@, id, Len(st.objs) + 1)],
             <<Len(st.objs) + 2>>)

\* deleteRule(id)
deleteRule(st, id) == [st EXCEPT !.map = MapDelete(@, id)]

\* getConfig(): { ...proxyConfig }, a new object
getConfig(st) == [st EXCEPT !.cfgs = Append(@, st.cfgs[st.cfg]),
                            !.heldCfg = <<Len(st.cfgs) + 1>>]

(***************************************************************************)
(* The rule routes (api.ts).  A JSON body is [keys, val]: keys are the     *)
(* properties the body has, val their values (methods as the list sent).   *)
(***************************************************************************)

\* `rule-${Date.now()}` for the clock readings of the model
RuleDateIds == <<"rule-0", "rule-1", "rule-2", "rule-3">>
GeneratedId(t) == RuleDateIds[t + 1]

\* body.f is truthy, for a text property whose empty value is empty
Truthy(body, f, empty) == f \in body.keys /\ body.val[f] # empty

\* the ChaosRule object POST /rules builds; methods is the index of its array
PostedRule(body, methods, t) ==
    [BaseRule(IF Truthy(body, "id", "") THEN body.val.id ELSE GeneratedId(t),
              body.val.chaosType, body.val.pathPattern, methods)
        EXCEPT !.name = body.val.name,
               !.enabled = IF "enabled" \in body.keys THEN body.val.enabled ELSE TRUE,
               !.latencyMs = IF "latencyMs" \in body.keys THEN body.val.latencyMs
                             ELSE Undefined,
               !.errorStatusCode = IF "errorStatusCode" \in body.keys
                                   THEN body.val.errorStatusCode ELSE Undefined,
               !.failRate = IF "failRate" \in body.keys THEN body.val.failRate
                            ELSE Undefined]

\* what a route leaves and answers
RouteResult(status, res) == [status |-> status, st |-> res.st, ret |-> res.ret]

\* a POST /rules that stores the rule before it looks at the required fields
PostRulesStoresFirst(st, body, t) ==
    RouteResult(IF \/ ~Truthy(body, "name", "")
                   \/ ~Truthy(body, "pathPattern", <<>>)
                   \/ ~Truthy(body, "chaosType", "")
                THEN 400 ELSE 201,
                createRule(
                    AllocObj(AllocArr(st, IF "methods" \in body.keys THEN body.val.methods
                                          ELSE <<"*">>),
                             PostedRule(body, Len(st.arrs) + 1, t)),
                    Len(st.objs) + 1))

\* POST /rules with the given body at time t
PostRules(st, body, t) ==
    IF \/ ~Truthy(body, "name", "")
       \/ ~Truthy(body, "pathPattern", <<>>)
       \/ ~Truthy(body, "chaosType", "")
    THEN RouteResult(400, StoreResult(st, <<>>))
    ELSE RouteResult(201,
             createRule(
                 AllocObj(AllocArr(st, IF "methods" \in body.keys THEN body.val.methods
                                       ELSE <<"*">>),
                          PostedRule(body, Len(st.arrs) + 1, t)),
                 Len(st.objs) + 1))

\* req.body of PUT /rules/:id as updateRule receives it: the methods list, when
\* the body has one, is the array at index methods
PutPatch(body, methods) ==
    [keys |-> body.keys, val |-> [body.val EXCEPT !.methods = methods]]

\* the answer of PUT /rules/:id, res being what updateRule gave
PutRulesAnswer(res) == RouteResult(IF res.ret = <<>> THEN 404 ELSE 200, res)

\* PUT /rules/:id with the given body
PutRules(st, id, body) ==
    PutRulesAnswer(updateRule(IF "methods" \in body.keys
                              THEN AllocArr(st, body.val.methods) ELSE st,
                              id, PutPatch(body, Len(st.arrs) + 1)))

\* DELETE /rules/:id
DeleteRules(st, id) ==
    RouteResult(IF KeyIndex(st.map, id) = 0 THEN 404 ELSE 200,
                StoreResult(deleteRule(st, id), <<>>))

\* the properties POST /rules requires
Required == {"name", "pathPattern", "chaosType"}

JsonBody(keys, val) == [keys |-> keys, val |-> val]

RuleBody(keys, id, type, methods, enabled) ==
    JsonBody(keys, [BaseRule(id, type, AnyPath, methods) EXCEPT
                       !.name = "a rule", !.enabled = enabled])

\* the bodies clients send to POST /rules: without id and methods; with an id;
\* with the same id again and an empty methods list; disabled; without a name
PostBodies ==
    { RuleBody(Required, "", "error", <<>>, TRUE),
      RuleBody(Required \cup {"id", "methods"}, "r1", "error", <<"GET">>, TRUE),
      RuleBody(Required \cup {"id", "methods"}, "r1", "latency", <<>>, TRUE),
      RuleBody(Required \cup {"id", "methods", "enabled"}, "r2", "error", <<"*">>, FALSE),
      RuleBody({"pathPattern", "chaosType"}, "", "error", <<>>, TRUE) }

\* the bodies clients send to PUT /rules/:id
PutBodies ==
    { RuleBody({"enabled"}, "", "", <<>>, FALSE),
      [RuleBody({"id", "name"}, "r9", "", <<>>, TRUE) EXCEPT !.val.name = "renamed"],
      RuleBody({"methods"}, "", "", <<>>, TRUE),
      RuleBody({"methods"}, "", "", <<"POST">>, TRUE) }

StoreKeys == {store.map[k].key : k \in DOMAIN store.map}

\* the ids clients name: those stored and one that is not
Targets == StoreKeys \cup {"nope"}

InitRules ==
    /\ store = [objs |-> <<>>, arrs |-> <<>>, map |-> <<>>,
                cfgs |-> <<[targetUrl |-> Some(""), enabled |-> Some(TRUE)]>>,
                cfg |-> 1, held |-> <<>>, heldCfg |-> <<>>,
                ops |-> 0, last |-> "", target |-> "", status |-> 0]
    /\ proxyConfig = [targetUrl |-> Some(""), enabled |-> Some(TRUE)]
    /\ chaosRules = <<>>
    /\ requestLogs = <<>>
    /\ tokenBuckets = <<>>
    /\ now = 0
    /\ reqs = <<>>
    /\ sent = <<>>
    /\ matchIn = <<>>
    /\ matchOut = <<>>
    /\ configOut = <<>>
    /\ logRun = <<>>
    /\ bucketRun = <<>>
    /\ corruptRun = <<>>
    /\ clients = <<>>

\* the store after a call op on rule id: the heap it left, what it returned,
\* and what the stored objects now read as
Settle(op, id, status, st, ret, retCfg) ==
    /\ store.ops < MaxStoreOps
    /\ store' = [st EXCEPT !.held = ret, !.heldCfg = retCfg, !.ops = store.ops + 1,
                           !.last = op, !.target = id, !.status = status]
    /\ chaosRules' = StoredRules(st)
    /\ proxyConfig' = StoredConfig(st)
    /\ UNCHANGED <<requestLogs, tokenBuckets, now, reqs, sent, matchIn, matchOut,
                   configOut, logRun, bucketRun, corruptRun, clients>>

SettleRoute(op, id, res) == Settle(op, id, res.status, res.st, res.ret, <<>>)

PostRule ==
    \E body \in PostBodies :
        SettleRoute("post", "", PostRules(store, body, now))

PutRule ==
    \E id \in Targets, body \in PutBodies :
        SettleRoute("put", id, PutRules(store, id, body))

\* updateRule(id, getRule(id)); copied is what getRule gave
UpdateWithCopy(id, copied) ==
    updateRule(copied.st, id, AsPatch(copied.st.objs[copied.ret[1]]))

PutRuleBack ==
    \E id \in StoreKeys :
        SettleRoute("putback", id,
                    RouteResult(200, UpdateWithCopy(id, getRule(store, id))))

DeleteRule ==
    \E id \in Targets :
        SettleRoute("delete", id, DeleteRules(store, id))

\* GET /rules/:id
GetRuleById(st, id) ==
    RouteResult(IF getRule(st, id).ret = <<>> THEN 404 ELSE 200, getRule(st, id))

GetRule ==
    \E id \in Targets :
        SettleRoute("get", id, GetRuleById(store, id))

GetRules ==
    /\ store.ops < MaxStoreOps
    /\ SettleRoute("list", "", RouteResult(200, getRules(store)))

GetConfig ==
    /\ store.ops < MaxStoreOps
    /\ Settle("config", "", 200, getConfig(store), <<>>, getConfig(store).heldCfg)

\* Date.now() advances by a millisecond
StoreTick ==
    /\ now < MaxStoreMs
    /\ now' = now + 1
    /\ UNCHANGED <<proxyConfig, chaosRules, requestLogs, tokenBuckets, reqs, sent,
                   matchIn, matchOut, configOut, aux, clients>>

\* The caller of the last store call writes to an object it was returned: a
\* property of a rule, an element pushed on a rule's methods array, or a
\* property of the config.
WriteName(st, a) == [st EXCEPT !.objs[a].name = "mutated"]
PushMethod(st, a) == [st EXCEPT !.arrs[st.objs[a].methods] = Append(@, "PATCH")]
WriteEnabled(st, a) == [st EXCEPT !.cfgs[a].enabled = Some(FALSE)]

CallerMutates ==
    \/ \E k \in DOMAIN store.held :
          \/ Settle("mutate", "", 0, WriteName(store, store.held[k]), store.held, <<>>)
          \/ Settle("mutate", "", 0, PushMethod(store, store.held[k]), store.held, <<>>)
    \/ /\ store.heldCfg # <<>>
       /\ Settle("mutate", "", 0, WriteEnabled(store, store.heldCfg[1]), <<>>,
               store.heldCfg)

\* the management interface
NextRules ==
    \/ PostRule
    \/ PutRule
    \/ PutRuleBack
    \/ DeleteRule
    \/ GetRule
    \/ GetRules
    \/ GetConfig
    \/ StoreTick

SpecRules == InitRules /\ [][NextRules]_vars

\* the store functions with a caller that writes to what they return
NextCallers ==
    \/ NextRules
    \/ CallerMutates

SpecCallers == InitRules /\ [][NextCallers]_vars

(***************************************************************************)
(* One token bucket on its own (chaos-engine.ts getOrCreateBucket,         *)
(* tryConsumeToken): serialized consume calls under one key with fixed rps *)
(* and burst.  bucketRun counts the calls and those allowed, and keeps the *)
(* times of the first and the last call.                                   *)
(***************************************************************************)

MaxConsumes == 5    \* consume calls in one run of the bucket
MaxBucketMs == 2000 \* how far the clock advances in one run of the bucket

BucketRates == {0, 1, 2}
BucketBursts == {0, 1, 2, 3}
BucketSteps == {250, 1000}

\* the key the calls use
RunKey == BucketKey("GET", "r1")

InitBucket ==
    /\ proxyConfig = GoodConfig
    /\ chaosRules = <<>>
    /\ requestLogs = <<>>
    /\ tokenBuckets = <<>>
    /\ now = 0
    /\ reqs = <<>>
    /\ sent = <<>>
    /\ matchIn = <<>>
    /\ matchOut = <<>>
    /\ configOut = <<>>
    /\ logRun = <<>>
    /\ store = <<>>
    /\ \E r \in BucketRates, b \in BucketBursts :
          bucketRun = [rps |-> r, burst |-> b, calls |-> 0, allowed |-> 0,
                       first |-> 0, last |-> 0]
    /\ corruptRun = <<>>
    /\ clients = <<>>

\* the registry and the counts after tryConsumeToken returned result on the
\* registry got
Consumed(got, result) ==
    /\ tokenBuckets' = [got EXCEPT ![RunKey] = result.bucket]
    /\ bucketRun' = [bucketRun EXCEPT
                        !.calls = @ + 1,
                        !.allowed = IF result.allowed THEN @ + 1 ELSE @,
                        !.first = IF bucketRun.calls = 0 THEN now ELSE @,
                        !.last = now]

\* tryConsumeToken on the registry that getOrCreateBucket leaves
ConsumeOn(got) == Consumed(got, tryConsumeToken(got[RunKey], now))

\* getOrCreateBucket(key, rps, burst), then tryConsumeToken(bucket)
Consume ==
    /\ bucketRun.calls < MaxConsumes
    /\ ConsumeOn(getOrCreateBucket(tokenBuckets, RunKey, bucketRun.rps,
                                   bucketRun.burst, now))
    /\ UNCHANGED <<proxyConfig, chaosRules, requestLogs, now, reqs, sent,
                   matchIn, matchOut, configOut, logRun, store, corruptRun, clients>>

\* time passes between two calls
BucketTick ==
    /\ \E step \in BucketSteps :
          /\ now + step <= MaxBucketMs
          /\ now' = now + step
    /\ UNCHANGED <<proxyConfig, chaosRules, requestLogs, tokenBuckets, reqs, sent,
                   matchIn, matchOut, configOut, aux, clients>>

NextBucket ==
    \/ Consume
    \/ BucketTick

SpecBucket == InitBucket /\ [][NextBucket]_vars

\* the rule of the bucket is edited between two calls: the next call hands
\* getOrCreateBucket the new rps and burst
EditBucketRule ==
    /\ \E r \in BucketRates, b \in BucketBursts :
          /\ <<r, b>> # <<bucketRun.rps, bucketRun.burst>>
          /\ bucketRun' = [bucketRun EXCEPT !.rps = r, !.burst = b]
    /\ UNCHANGED <<proxyConfig, chaosRules, requestLogs, tokenBuckets, now, reqs, sent,
                   matchIn, matchOut, configOut, logRun, store, corruptRun, clients>>

NextBucketEdit ==
    \/ Consume
    \/ BucketTick
    \/ EditBucketRule

\* one bucket whose rule is edited live
SpecBucketEdit == InitBucket /\ [][NextBucketEdit]_vars

(***************************************************************************)
(* The proxy under one rate-limiting rule: a token bucket of some rps and  *)
(* burst, or a drop rate.                                                  *)
(***************************************************************************)

LimiterRuleSets ==
    { <<TokenBucketRule("r1", rps, burst)>> : rps \in {0, 1, 2}, burst \in {0, 1} }
        \cup { <<RateLimitRule("r1", 100)>> }

InitLimiter ==
    /\ proxyConfig = GoodConfig
    /\ chaosRules \in LimiterRuleSets
    /\ requestLogs = <<>>
    /\ tokenBuckets = <<>>
    /\ now = 0
    /\ reqs = <<>>
    /\ sent = <<>>
    /\ matchIn = <<>>
    /\ matchOut = <<>>
    /\ configOut = <<>>
    /\ logRun = <<>>
    /\ store = <<>>
    /\ bucketRun = <<>>
    /\ corruptRun = <<>>
    /\ clients = <<>>

NextLimiter ==
    \/ Receive
    \/ UpstreamResponds
    \/ UpstreamFails
    \/ Tick

SpecLimiter == InitLimiter /\ [][NextLimiter]_vars

(***************************************************************************)
(* Properties                                                              *)
(***************************************************************************)

Final == {"responded", "reset", "aborted"}
HangStates == {"hang", "reset", "aborted"}

\* the entries of the log collection, oldest first
LogEntries == [k \in DOMAIN requestLogs |-> reqs[requestLogs[k]].logEntry[1]]

\* how many times request i's entry is in the log collection / was broadcast
TimesLogged(i) == Cardinality({k \in DOMAIN requestLogs : requestLogs[k] = i})
TimesSent(i) == Cardinality({k \in DOMAIN sent : sent[k].log.id = i})

\* C1: with chaos enabled, the pre-upstream pipeline is evaluated once per
\* request: at most one rule lookup, one drop-rate sample and one token-bucket
\* consume, so an allowed token-bucket request takes one token.
C1_PipelineEvaluatedOnce ==
    \A i \in DOMAIN reqs :
        reqs[i].enabled =>
            /\ reqs[i].preRuns <= 1
            /\ reqs[i].matches <= 1
            /\ reqs[i].samples <= 1
            /\ reqs[i].consumes <= 1

\* the status codes the token-bucket scenario of the specification expects
C2_Expected == <<200, 200, 429, 429>>

\* requests 1..i were GET requests issued one after the other with no time
\* passing, and upstream answered 200 whenever it was called
C2_BackToBack(i) ==
    /\ now = 0
    /\ \A j \in 1..i :
          /\ reqs[j].pc = "responded"
          /\ reqs[j].method = "GET"
          /\ reqs[j].alone
          /\ reqs[j].upstreamCalls > 0 =>
                (reqs[j].up # <<>> /\ reqs[j].up[1].status = 200
                   /\ reqs[j].response[1].statusCode = 200)

\* C2: under one token-bucket rule with rps 2 and burst 2 and a fresh bucket,
\* back-to-back requests are answered 200, 200, 429, 429, the 429s carrying
\* Retry-After: 1.
C2_BurstThenBlocked ==
    (proxyConfig = GoodConfig /\ chaosRules = <<TokenBucketRule("r1", 2, 2)>>) =>
        \A i \in DOMAIN reqs :
            (i <= Len(C2_Expected) /\ C2_BackToBack(i)) =>
                /\ reqs[i].response[1].statusCode = C2_Expected[i]
                /\ C2_Expected[i] = 429 =>
                      reqs[i].response[1].headers =
                          <<[name |-> "Retry-After", value |-> 1]>>

\* C3: a request in the timeout hang gets no HTTP response and no upstream
\* call; from the hang it only moves to reset or aborted, which are final.
C3_HangNeverResponds ==
    /\ [](\A i \in DOMAIN reqs :
            reqs[i].pc \in HangStates =>
                reqs[i].response = <<>> /\ reqs[i].upstreamCalls = 0)
    /\ [][\A i \in DOMAIN reqs :
            /\ reqs[i].pc = "hang" => reqs'[i].pc \in HangStates
            /\ reqs[i].pc \in {"reset", "aborted"} => reqs'[i].pc = reqs[i].pc]_vars

\* the timer of a hanging request fired and destroyed its socket
C3_Witness ==
    \E i \in DOMAIN reqs : reqs[i].pc = "reset" /\ reqs[i].heldMs = 300

\* the hang duration a timeout rule plans: timeoutMs (default 8000) moved by at
\* most jitterMs
C4_Planned(rule, ms) ==
    LET base == Coalesce(rule.timeoutMs, 8000)
        jitter == Coalesce(rule.jitterMs, 0)
    IN  ms >= 0 /\ ms >= base - jitter /\ ms <= base + jitter

C5_HangCapped ==
    \A i \in DOMAIN reqs :
        /\ reqs[i].pc = "hang" => reqs[i].timerMs <= TIMEOUT_CHAOS_MAX_DURATION_MS
        /\ reqs[i].pc = "reset" =>
              /\ reqs[i].heldMs <= TIMEOUT_CHAOS_MAX_DURATION_MS
              /\ reqs[i].logEntry[1].responseTime < TIMEOUT_CHAOS_MAX_DURATION_MS =>
                    reqs[i].heldMs = reqs[i].logEntry[1].responseTime

\* C6: every outcome of a proxied request has one log entry, which was
\* broadcast; the 503 for a missing target URL is logged with chaosApplied false.
C6_EveryOutcomeLogged ==
    \A i \in DOMAIN reqs :
        reqs[i].pc \in Final =>
            /\ TimesLogged(i) = 1
            /\ TimesSent(i) = 1
            /\ reqs[i].response # <<>> /\ reqs[i].response[1].statusCode = 503 =>
                  ~reqs[i].logEntry[1].chaosApplied

\* C7: PUT /config merges the body into the stored config: a field the body
\* does not carry keeps its stored value.
C7_PutConfigMerges ==
    configOut # <<>> =>
        LET call == configOut[1] IN
        /\ call.body.targetUrl = None => proxyConfig.targetUrl = call.before.targetUrl
        /\ call.body.enabled = None => proxyConfig.enabled = call.before.enabled

\* rule i is enabled, its method filter admits the method and its pattern
\* matches the path
C8_Qualifies(i, path, method) ==
    /\ chaosRules[i].enabled
    /\ matchesMethod(chaosRules[i].methods, method)
    /\ matchesPath(chaosRules[i].pathPattern, path).value

\* C8: findMatchingRule returns the first rule in insertion order that is
\* enabled, admits the method and matches the path, and none exactly when
\* there is no such rule.
C8_FirstMatchWins ==
    matchOut # <<>> =>
        LET path == matchIn[1].path
            method == matchIn[1].method
            got == matchOut[1]
        IN  /\ ~got.threw
            /\ got.value \in 0..Len(chaosRules)
            /\ got.value = 0 =>
                  \A i \in DOMAIN chaosRules : ~C8_Qualifies(i, path, method)
            /\ got.value # 0 =>
                  /\ C8_Qualifies(got.value, path, method)
                  /\ \A j \in 1..(got.value - 1) : ~C8_Qualifies(j, path, method)

\* the second rule is returned past a disabled first rule that would match
C8_Witness ==
    /\ matchOut # <<>>
    /\ matchOut[1].value = 2
    /\ ~chaosRules[1].enabled
    /\ matchesMethod(chaosRules[1].methods, matchIn[1].method)
    /\ matchesPath(chaosRules[1].pathPattern, matchIn[1].path).value

\* a method list admits a method: it holds the wildcard, or a token equal to
\* the method when letter case is ignored
C9_Admits(allowed, method) ==
    \/ \E k \in DOMAIN allowed : allowed[k] = "*"
    \/ \E k \in DOMAIN allowed : toUpperCase(allowed[k]) = toUpperCase(method)

C9_Qualifies(i, path, method) ==
    /\ chaosRules[i].enabled
    /\ C9_Admits(chaosRules[i].methods, method)
    /\ matchesPath(chaosRules[i].pathPattern, path).value

\* C9: the method filter admits every method when it holds the wildcard and
\* otherwise compares method tokens ignoring letter case, so the rule the
\* matcher returns is the first enabled rule admitting the method in that sense
\* whose pattern matches.
C9_MethodFilterIgnoresCase ==
    matchOut # <<>> =>
        LET path == matchIn[1].path
            method == matchIn[1].method
            got == matchOut[1]
        IN  /\ got.value = 0 =>
                  \A i \in DOMAIN chaosRules : ~C9_Qualifies(i, path, method)
            /\ got.value # 0 =>
                  /\ C9_Qualifies(got.value, path, method)
                  /\ \A j \in 1..(got.value - 1) : ~C9_Qualifies(j, path, method)

\* sub occurs in str
C10_Contains(str, sub) ==
    \E a \in 1..(Len(str) + 1) : \E b \in (a - 1)..Len(str) : SubSeq(str, a, b) = sub

\* C10: matching never raises; a rule whose pattern is no valid regex matches
\* exactly the paths that contain the pattern, and when it does not match, the
\* rules after it are still tried.
C10_InvalidPatternIsSubstring ==
    matchOut # <<>> =>
        LET path == matchIn[1].path
            method == matchIn[1].method
            got == matchOut[1]
            invalid(i) == ~RegExpCompiles(chaosRules[i].pathPattern)
            admitted(i) == /\ chaosRules[i].enabled
                           /\ matchesMethod(chaosRules[i].methods, method)
        IN  /\ ~got.threw
            /\ \A i \in DOMAIN chaosRules :
                  invalid(i) =>
                      /\ got.value = i => C10_Contains(path, chaosRules[i].pathPattern)
                      /\ (admitted(i) /\ C10_Contains(path, chaosRules[i].pathPattern))
                            => got.value \in 1..i
                      /\ \A j \in DOMAIN chaosRules :
                            (/\ i < j
                             /\ C8_Qualifies(j, path, method)
                             /\ \A k \in 1..(j - 1) : ~C8_Qualifies(k, path, method))
                               => got.value = j

\* an invalid first pattern does not match and the second rule is returned; and
\* an invalid pattern matches a path that contains it
C10_Witness ==
    /\ matchOut # <<>>
    /\ Len(chaosRules) = 2
    /\ chaosRules[1].enabled
    /\ ~RegExpCompiles(chaosRules[1].pathPattern)
    /\ matchesMethod(chaosRules[1].methods, matchIn[1].method)
    /\ ~C10_Contains(matchIn[1].path, chaosRules[1].pathPattern)
    /\ matchOut[1].value = 2
    /\ ~RegExpCompiles(chaosRules[2].pathPattern)
    /\ C10_Contains(matchIn[1].path, chaosRules[2].pathPattern)

\* the entries appended since the last clear, newest last, cut to the newest n
C11_MostRecent(n) ==
    [i \in 1..n |-> logRun.next - n + i - 1]

\* C11: after any sequence of appends, reads and clears the log collection
\* holds at most 1000 entries and equals the most recent (up to 1000) entries
\* appended since the last clear, in append order: eviction takes the oldest.
C11_LogRingKeepsNewest ==
    /\ Len(requestLogs) <= MAX_LOGS
    /\ requestLogs = C11_MostRecent(Min(MAX_LOGS, logRun.next - logRun.floor))

\* an append went over the cap: more than 1000 entries were appended since the
\* last clear, and the collection was read afterwards
C11_Witness ==
    /\ logRun.next - logRun.floor > MAX_LOGS
    /\ Len(requestLogs) = MAX_LOGS
    /\ logRun.out # <<>> /\ Len(logRun.out[1].data) = MAX_LOGS

\* the n most recent entries of a collection, newest first
C12_NewestFirst(logs, n) ==
    [i \in 1..Min(n, Len(logs)) |-> logs[Len(logs) + 1 - i]]

\* C12: GET /logs?limit=N, for an integer N >= 0, returns the N most recent
\* entries newest first (all of them when fewer than N are stored), never more
\* than N; without a limit it returns every entry newest first.
C12_ReadNewestFirstWithinLimit ==
    logRun.out # <<>> =>
        LET query == logRun.out[1].query
            stored == logRun.out[1].stored
            data == logRun.out[1].data
        IN  IF query = None \/ query[1] = <<>>
            THEN data = C12_NewestFirst(stored, Len(stored))
            ELSE /\ data = C12_NewestFirst(stored, parseInt(query[1]))
                 /\ Len(data) <= parseInt(query[1])

\* the step is a call of the given kind on the rule store
C13_Step(op) == store'.ops = store.ops + 1 /\ store'.last = op

\* C13: what getConfig, getRule, getRules, createRule and updateRule return are
\* copies: a caller's write to a returned rule or config, or to a returned
\* rule's methods list, changes nothing that later reads and the matcher see.
C13_ReturnedValuesAreCopies ==
    [][C13_Step("mutate") =>
          (chaosRules' = chaosRules /\ proxyConfig' = proxyConfig)]_vars

\* C14: updateRule(id, getRule(id)) leaves the stored rules unchanged: the
\* same rules with the same field values in the same order.
C14_UpdateWithOwnCopyIsNoOp ==
    [][C13_Step("putback") => chaosRules' = chaosRules]_vars

\* updateRule(id, getRule(id)) was called on the first of two stored rules
C14_Witness ==
    /\ store # <<>>
    /\ store.last = "putback"
    /\ Len(chaosRules) = 2
    /\ store.target = chaosRules[1].id

\* C15: PUT /rules/:id never changes the rule's id, whatever id the patch
\* carries; the stored ids and their order stay as they were and every other
\* rule is untouched.
C15_UpdateKeepsIdsAndOrder ==
    [][C13_Step("put") =>
          /\ Len(chaosRules') = Len(chaosRules)
          /\ \A k \in DOMAIN chaosRules :
                /\ chaosRules'[k].id = chaosRules[k].id
                /\ chaosRules[k].id # store'.target => chaosRules'[k] = chaosRules[k]]_vars

\* a patch carrying another id was merged into the first of two stored rules
C15_Witness ==
    /\ store # <<>>
    /\ store.last = "put" /\ store.status = 200
    /\ Len(chaosRules) = 2
    /\ store.target = chaosRules[1].id
    /\ chaosRules[1].name = "renamed"

\* C16: every successful POST /rules adds one new rule at the end of the
\* collection and leaves the rules stored before, and their order, unchanged
\* (so ids stay unique and k creates without deletes give k rules).
C16_CreateAppendsOneRule ==
    [][(C13_Step("post") /\ store'.status = 201) =>
          /\ Len(chaosRules') = Len(chaosRules) + 1
          /\ SubSeq(chaosRules', 1, Len(chaosRules)) = chaosRules]_vars

\* C17: every stored rule has a non-empty methods list.
C17_MethodsNonEmpty ==
    \A k \in DOMAIN chaosRules : chaosRules[k].methods # <<>>

\* min(N, floor(b + r*T)) for the run so far: N calls, T from the first call
\* to the last
C18_Expected ==
    Min(bucketRun.calls,
        (bucketRun.burst * Milli
           + bucketRun.rps * (bucketRun.last - bucketRun.first)) \div Milli)

\* C18 as stated: the number of allowed calls equals min(N, floor(b + r*T))
\* within a tolerance of one.
C18_AllowedEqualsExpected ==
    /\ bucketRun.allowed <= C18_Expected + 1
    /\ bucketRun.allowed >= C18_Expected - 1

\* C18 as amended: the number of allowed calls is at most min(N, floor(b + r*T)),
\* within a tolerance of one.
C18_AllowedAtMostExpected ==
    bucketRun.allowed <= C18_Expected + 1

\* calls spread over time, some blocked, and more allowed than the burst: the
\* refill let calls through
C18_Witness ==
    /\ bucketRun # <<>>
    /\ bucketRun.calls = MaxConsumes
    /\ bucketRun.last > bucketRun.first
    /\ bucketRun.allowed < bucketRun.calls
    /\ bucketRun.allowed > bucketRun.burst
    /\ bucketRun.allowed = C18_Expected

\* the request that the step received was answered 429
C19_Received429 ==
    /\ Len(reqs') = Len(reqs) + 1
    /\ reqs'[Len(reqs')].response # <<>>
    /\ reqs'[Len(reqs')].response[1].statusCode = 429

\* max(1, ceil((1 - tokens) / rps)) for a bucket, tokens counted in thousandths;
\* 0, which no header may equal, when rps is 0 and the quotient is no number
C19_RetryAfter(bucket) ==
    IF bucket.rps = 0 THEN 0
    ELSE Max(1, CeilDiv(Milli - bucket.tokens, Milli * bucket.rps))

\* C19: a 429 of a token-bucket rule carries Retry-After: n, n an integer >= 1
\* equal to max(1, ceil((1 - tokens)/rps)) on the bucket's tokens after refill,
\* and the same n is the body's retryAfter and the n of the action
\* token_bucket:blocked(retry_after=n); a 429 of a drop-rate rule carries no
\* Retry-After header.
C19_RetryAfterOnTokenBucket429 ==
    [][C19_Received429 =>
          LET req == reqs'[Len(reqs')]
              rule == req.matchedRule[1]
              sent429 == req.response[1]
          IN  IF rule.chaosType = "token-bucket"
              THEN /\ Len(sent429.headers) = 1
                   /\ sent429.headers[1].name = "Retry-After"
                   /\ sent429.headers[1].value >= 1
                   /\ sent429.headers[1].value # Infinity
                   /\ sent429.headers[1].value =
                         C19_RetryAfter(tokenBuckets'[BucketKey(req.method, rule.id)])
                   /\ sent429.body.retryAfter = sent429.headers[1].value
                   /\ req.actionsApplied[Len(req.actionsApplied)] =
                         Act("token_bucket:blocked", "", sent429.headers[1].value)
              ELSE sent429.headers = <<>>]_vars

\* the one rule is a token bucket with burst 0
C20_BurstZero ==
    /\ Len(chaosRules) = 1
    /\ chaosRules[1].chaosType = "token-bucket"
    /\ chaosRules[1].burst = 0

\* C20: under a token-bucket rule with burst 0 every request the rule matches is
\* blocked, whenever it arrives and whatever the rps: it is answered 429 and no
\* upstream call is made for it.
C20_BurstZeroBlocksAll ==
    C20_BurstZero =>
        \A i \in DOMAIN reqs :
            /\ reqs[i].upstreamCalls = 0
            /\ reqs[i].pc = "responded"
            /\ reqs[i].response[1].statusCode = 429

\* a request arrived after time had passed under burst 0 and a positive rps
C20_Witness ==
    /\ C20_BurstZero
    /\ chaosRules[1].rps > 0
    /\ \E i \in DOMAIN reqs :
          /\ reqs[i].startTime > 0
          /\ reqs[i].pc = "responded"

\* the request's actionsApplied holds an action with the given tag
HasAction(req, tag) ==
    \E k \in DOMAIN req.actionsApplied : req.actionsApplied[k].tag = tag

(***************************************************************************)
(* The proxy with chaos switched off: a stored rule set of each chaos     *)
(* type, a reachable target, config.enabled false or absent, and the       *)
(* registry that an earlier stretch with chaos enabled has filled.         *)
(***************************************************************************)

DisabledConfigs ==
    { [targetUrl |-> Some("http://up"), enabled |-> e] : e \in {None, Some(FALSE)} }

\* the registry after one token-bucket request under TokenBucketRule(_, 2, 2)
EarlierBuckets ==
    getOrCreateBucket(<<>>, BucketKey("GET", "r1"), 2, 2, 0)

\* one stored rule set for each chaos type, and none
DisabledRuleSets ==
    { <<>>,
      <<TokenBucketRule("r1", 2, 2)>>,
      <<TimeoutRule("r1", AnyPath, 300, Undefined)>>,
      <<ErrorRule("r1", 503, "nope")>>,
      <<LatencyRule("r1", 200)>>,
      <<CorruptRule("r1")>>,
      <<RateLimitRule("r1", 100)>> }

InitDisabled ==
    /\ proxyConfig \in DisabledConfigs
    /\ chaosRules \in DisabledRuleSets
    /\ requestLogs = <<>>
    /\ tokenBuckets = EarlierBuckets
    /\ now = 0
    /\ reqs = <<>>
    /\ sent = <<>>
    /\ matchIn = <<>>
    /\ matchOut = <<>>
    /\ configOut = <<>>
    /\ logRun = <<>>
    /\ store = <<>>
    /\ bucketRun = <<>>
    /\ corruptRun = <<>>
    /\ clients = <<>>

\* with chaos off no request sleeps or hangs: no timer is ever armed
NextDisabled ==
    \/ Receive
    \/ UpstreamResponds
    \/ UpstreamFails
    \/ Tick

SpecDisabled == InitDisabled /\ [][NextDisabled]_vars

(***************************************************************************)
(* The proxy under one forced-error rule.  POST /rules and PUT /rules/:id  *)
(* store whatever errorStatusCode the body carries.                        *)
(***************************************************************************)

\* errorStatusCode values of stored rules: absent, and numbers in and around the
\* ranges 100..599 (HTTP) and 100..999 (what the HTTP writer accepts)
ErrorStatuses == {Undefined, 0, 99, 100, 503, 599, 600, 1000}

InitErrorStatus ==
    /\ proxyConfig = GoodConfig
    /\ chaosRules \in { <<ErrorRule("r1", status, message)>> :
                           status \in ErrorStatuses, message \in {"nope", NoMessage} }
    /\ requestLogs = <<>>
    /\ tokenBuckets = <<>>
    /\ now = 0
    /\ reqs = <<>>
    /\ sent = <<>>
    /\ matchIn = <<>>
    /\ matchOut = <<>>
    /\ configOut = <<>>
    /\ logRun = <<>>
    /\ store = <<>>
    /\ bucketRun = <<>>
    /\ corruptRun = <<>>
    /\ clients = <<>>

\* a forced error ends the handler in its first stretch: nothing is awaited
NextErrorStatus ==
    \/ Receive
    \/ Tick

SpecErrorStatus == InitErrorStatus /\ [][NextErrorStatus]_vars

(***************************************************************************)
(* JSON corruption (chaos-engine.ts, corruptJsonBody).  A body is its text,*)
(* a sequence of one-character strings.  JSON.parse is modelled on the     *)
(* texts the model draws and the texts corruption makes of them: a number  *)
(* of the digits 1 and 2, null, or an array or object of those, the keys   *)
(* being strings of the letters a and b, with no white space.              *)
(***************************************************************************)

JsonDigits == {"1", "2"}
JsonLetters == {"a", "b"}
NullText == <<"n", "u", "l", "l">>

\* what JSON.parse gives: a SyntaxError, or a value.  A scalar keeps its text in
\* vals[1]; an array keeps the texts of its elements in vals; an object keeps
\* its keys and, in the same order, the texts of their values.
ParseError == [ok |-> FALSE, kind |-> "", keys |-> <<>>, vals |-> <<>>, next |-> 0]
ParsedValue(kind, keys, vals, next) ==
    [ok |-> TRUE, kind |-> kind, keys |-> keys, vals |-> vals, next |-> next]

\* the end of the run of characters of the set from position i on
RECURSIVE RunEnd(_, _, _)
RunEnd(text, i, set) ==
    IF i <= Len(text) /\ text[i] \in set THEN RunEnd(text, i + 1, set) ELSE i

\* a number or null at position i
ScalarAt(text, i) ==
    IF RunEnd(text, i, JsonDigits) > i
    THEN ParsedValue("scalar", <<>>,
                     <<SubSeq(text, i, RunEnd(text, i, JsonDigits) - 1)>>,
                     RunEnd(text, i, JsonDigits))
    ELSE IF i + 3 <= Len(text) /\ SubSeq(text, i, i + 3) = NullText
    THEN ParsedValue("scalar", <<>>, <<NullText>>, i + 4)
    ELSE ParseError

\* a key, "letters", at position i: the position after its closing quote, or 0
KeyEnd(text, i) ==
    IF i <= Len(text) /\ text[i] = "\""
          /\ RunEnd(text, i + 1, JsonLetters) <= Len(text)
          /\ text[RunEnd(text, i + 1, JsonLetters)] = "\""
    THEN RunEnd(text, i + 1, JsonLetters) + 1
    ELSE 0

\* the elements of an array from position i on, acc being those already read
RECURSIVE ElementsFrom(_, _, _)
ElementsAfter(text, v, acc) ==
    IF ~v.ok \/ v.next > Len(text) THEN ParseError
    ELSE IF text[v.next] = "," THEN ElementsFrom(text, v.next + 1, acc \o v.vals)
    ELSE IF text[v.next] = "]"
    THEN ParsedValue("array", <<>>, acc \o v.vals, v.next + 1)
    ELSE ParseError
ElementsFrom(text, i, acc) == ElementsAfter(text, ScalarAt(text, i), acc)

\* the members of an object from position i on
RECURSIVE MembersFrom(_, _, _, _)
MembersAfter(text, key, v, keys, vals) ==
    IF ~v.ok \/ v.next > Len(text) THEN ParseError
    ELSE IF text[v.next] = ","
    THEN MembersFrom(text, v.next + 1, Append(keys, key), vals \o v.vals)
    ELSE IF text[v.next] = "}"
    THEN ParsedValue("object", Append(keys, key), vals \o v.vals, v.next + 1)
    ELSE ParseError
MembersFrom(text, i, keys, vals) ==
    IF KeyEnd(text, i) = 0 \/ KeyEnd(text, i) > Len(text) THEN ParseError
    ELSE IF text[KeyEnd(text, i)] # ":" THEN ParseError
    ELSE MembersAfter(text, SubSeq(text, i + 1, KeyEnd(text, i) - 2),
                      ScalarAt(text, KeyEnd(text, i) + 1), keys, vals)

\* the value at the start of the text
ValueAt(text) ==
    IF text = <<>> THEN ParseError
    ELSE IF text[1] = "["
    THEN IF Len(text) >= 2 /\ text[2] = "]" THEN ParsedValue("array", <<>>, <<>>, 3)
         ELSE ElementsFrom(text, 2, <<>>)
    ELSE IF text[1] = "{"
    THEN IF Len(text) >= 2 /\ text[2] = "}" THEN ParsedValue("object", <<>>, <<>>, 3)
         ELSE MembersFrom(text, 2, <<>>, <<>>)
    ELSE ScalarAt(text, 1)

\* JSON.parse(text): the value must be the whole text
WholeText(text, v) == IF v.ok /\ v.next = Len(text) + 1 THEN v ELSE ParseError
JsonParse(text) == WholeText(text, ValueAt(text))

\* parts[i..] joined by commas
RECURSIVE JoinFrom(_, _)
JoinFrom(parts, i) ==
    IF i > Len(parts) THEN <<>>
    ELSE IF i = Len(parts) THEN parts[i]
    ELSE parts[i] \o <<",">> \o JoinFrom(parts, i + 1)

\* JSON.stringify of a parsed array or object
JsonStringify(v) ==
    IF v.kind = "array" THEN <<"[">> \o JoinFrom(v.vals, 1) \o <<"]">>
    ELSE <<"{">>
           \o JoinFrom([j \in DOMAIN v.keys |->
                           <<"\"">> \o v.keys[j] \o <<"\"", ":">> \o v.vals[j]], 1)
           \o <<"}">>

\* a sequence without its j-th element
WithoutIndex(seq, j) == SubSeq(seq, 1, j - 1) \o SubSeq(seq, j + 1, Len(seq))

\* delete obj[Object.keys(obj)[j - 1]]: an object loses the key; an array keeps
\* its length and a hole, which JSON.stringify writes as null
DeleteKey(v, j) ==
    IF v.kind = "array" THEN [v EXCEPT !.vals[j] = NullText]
    ELSE [v EXCEPT !.keys = WithoutIndex(v.keys, j), !.vals = WithoutIndex(v.vals, j)]

\* Object.keys(obj).length
KeyCount(v) == Len(v.vals)

\* str.slice(0, -k)
SliceEnd(str, k) == SubSeq(str, 1, Len(str) - k)

\* str.indexOf(ch), counted from 1; 0 when ch does not occur
IndexOf(str, ch) ==
    IF \E i \in DOMAIN str : str[i] = ch
    THEN CHOOSE i \in DOMAIN str : str[i] = ch /\ \A k \in 1..(i - 1) : str[k] # ch
    ELSE 0

InvalidChars == <<"\\x00", "\\xFF", "\\xFE">>
Garbage == <<"<", "<", "<", "C", "O", "R", "R", "U", "P", "T", "E", "D", ">", ">", ">">>
SyntaxChars == <<"{", "}", "[", "]", "\"", ":", ",">>

CorruptionResult(body, tag, s, n) == [body |-> body, action |-> Act(tag, s, n)]

\* case 'truncate': cutPoint = Math.floor(body.length * (0.3 + Math.random() * 0.4))
Truncate(body, rnd) ==
    LET cutPoint == (Len(body) * (3 * RandDen + 4 * rnd)) \div (10 * RandDen) IN
    CorruptionResult(SubSeq(body, 1, cutPoint), "corrupt_json:truncated_at", "", cutPoint)

\* case 'invalid_chars'
InsertInvalidChars(body, rnd) ==
    LET insertPoint == RandomBelow(rnd, Len(body)) IN
    CorruptionResult(SubSeq(body, 1, insertPoint) \o InvalidChars
                        \o SubSeq(body, insertPoint + 1, Len(body)),
                     "corrupt_json:invalid_chars", "", 0)

\* case 'break_syntax' once charToRemove is drawn
RemoveChar(body, charToRemove, idx) ==
    IF idx # 0
    THEN CorruptionResult(WithoutIndex(body, idx), "corrupt_json:removed_char",
                          charToRemove, 0)
    ELSE CorruptionResult(SliceEnd(body, 10), "corrupt_json:truncated_fallback", "", 0)

\* case 'break_syntax'
BreakSyntax(body, rnd) ==
    RemoveChar(body, SyntaxChars[RandomBelow(rnd, Len(SyntaxChars)) + 1],
               IndexOf(body, SyntaxChars[RandomBelow(rnd, Len(SyntaxChars)) + 1]))

\* case 'remove_key' once JSON.parse has returned obj or thrown
RemoveKeyOf(body, obj, rnd) ==
    IF obj.ok /\ obj.kind \in {"object", "array"} /\ KeyCount(obj) > 0
    THEN CorruptionResult(
             JsonStringify(DeleteKey(obj, RandomBelow(rnd, KeyCount(obj)) + 1)),
             "corrupt_json:removed_key",
             IF obj.kind = "array" THEN "" ELSE obj.keys[RandomBelow(rnd, KeyCount(obj)) + 1],
             IF obj.kind = "array" THEN RandomBelow(rnd, KeyCount(obj)) ELSE 0)
    ELSE CorruptionResult(SliceEnd(body, 5) \o Garbage,
                          "corrupt_json:appended_garbage", "", 0)

\* case 'remove_key'
RemoveKey(body, rnd) == RemoveKeyOf(body, JsonParse(body), rnd)

\* corruptJsonBody(body): rnd is the draw that picks the strategy, rnd2 the
\* draw that the strategy makes
corruptJsonBody(body, rnd, rnd2) ==
    CASE Strategies[RandomBelow(rnd, Len(Strategies)) + 1] = "truncate" ->
             Truncate(body, rnd2)
      [] Strategies[RandomBelow(rnd, Len(Strategies)) + 1] = "invalid_chars" ->
             InsertInvalidChars(body, rnd2)
      [] Strategies[RandomBelow(rnd, Len(Strategies)) + 1] = "break_syntax" ->
             BreakSyntax(body, rnd2)
      [] OTHER -> RemoveKey(body, rnd2)

\* the bodies upstream answers with: objects, arrays, empty ones, primitives,
\* text that is no JSON, nothing
CorruptBodies ==
    { <<"{", "\"", "a", "\"", ":", "1", ",", "\"", "b", "\"", ":", "2", "}">>,
      <<"{", "\"", "a", "\"", ":", "1", "}">>,
      <<"[", "1", ",", "2", "]">>,
      <<"[", "1", "]">>,
      <<"{", "}">>,
      <<"[", "]">>,
      <<"1">>,
      NullText,
      <<"{", "\"", "a", "\"", ":">>,
      <<>> }

InitCorrupt ==
    /\ proxyConfig = GoodConfig
    /\ chaosRules = <<CorruptRule("r1")>>
    /\ requestLogs = <<>>
    /\ tokenBuckets = <<>>
    /\ now = 0
    /\ reqs = <<>>
    /\ sent = <<>>
    /\ matchIn = <<>>
    /\ matchOut = <<>>
    /\ configOut = <<>>
    /\ logRun = <<>>
    /\ store = <<>>
    /\ bucketRun = <<>>
    /\ \E body \in CorruptBodies : corruptRun = [body |-> body, out |-> <<>>]
    /\ clients = <<>>

\* const corrupted = corruptJsonBody(bodyText)
CorruptCall ==
    /\ \E rnd \in Rnd, rnd2 \in Rnd :
          corruptRun' = [corruptRun EXCEPT
                            !.out = <<[rnd |-> rnd, rnd2 |-> rnd2,
                                       result |-> corruptJsonBody(corruptRun.body,
                                                                  rnd, rnd2)]>>]
    /\ UNCHANGED <<proxyConfig, chaosRules, requestLogs, tokenBuckets, now, reqs, sent,
                   matchIn, matchOut, configOut, logRun, store, bucketRun, clients>>

NextCorrupt == CorruptCall

SpecCorrupt == InitCorrupt /\ [][NextCorrupt]_vars

(***************************************************************************)
(* The proxy before an upstream that fails in every way the catch block    *)
(* tells apart.                                                            *)
(***************************************************************************)

\* error.cause.code of a rejected fetch: codes the catch block names, and an
\* error without a code
AllErrorCodes == {"ECONNREFUSED", "ENOTFOUND", "ETIMEDOUT", NoCode}

\* rule sets under which requests reach the upstream call
UpstreamRuleSets == { <<>>, <<LatencyRule("r1", 200)>> }

InitUpstream ==
    /\ proxyConfig = GoodConfig
    /\ chaosRules \in UpstreamRuleSets
    /\ requestLogs = <<>>
    /\ tokenBuckets = <<>>
    /\ now = 0
    /\ reqs = <<>>
    /\ sent = <<>>
    /\ matchIn = <<>>
    /\ matchOut = <<>>
    /\ configOut = <<>>
    /\ logRun = <<>>
    /\ store = <<>>
    /\ bucketRun = <<>>
    /\ corruptRun = <<>>
    /\ clients = <<>>

\* fetch() rejects, in any of the ways
UpstreamFailsAnyWay == UpstreamFailsWith(AllErrorCodes)

NextUpstream ==
    \/ Receive
    \/ UpstreamFailsAnyWay
    \/ Tick

SpecUpstream == InitUpstream /\ [][NextUpstream]_vars

(***************************************************************************)
(* The proxy with its scheduling: a timer that is armed fires, and the     *)
(* upstream call returns or fails.  Clients need not close a connection.   *)
(***************************************************************************)

\* one stored rule set for each way a request can end
LiveRuleSets ==
    { <<TimeoutRule("r1", <<"/", "a">>, 300, Undefined)>>,
      <<ErrorRule("r1", 503, "nope")>>,
      <<ErrorRule("r1", 0, "nope")>>,
      <<LatencyRule("r1", 200)>> }

InitLive ==
    /\ proxyConfig = GoodConfig
    /\ chaosRules \in LiveRuleSets
    /\ requestLogs = <<>>
    /\ tokenBuckets = <<>>
    /\ now = 0
    /\ reqs = <<>>
    /\ sent = <<>>
    /\ matchIn = <<>>
    /\ matchOut = <<>>
    /\ configOut = <<>>
    /\ logRun = <<>>
    /\ store = <<>>
    /\ bucketRun = <<>>
    /\ corruptRun = <<>>
    /\ clients = <<>>

\* setTimeout callbacks run once their delay is over; fetch() settles
Fairness ==
    /\ WF_vars(UpstreamResponds \/ UpstreamFails)
    /\ WF_vars(SleepDone)
    /\ WF_vars(TimerFires)

SpecLive == InitLive /\ [][Next]_vars /\ Fairness

(***************************************************************************)
(* Clients that go away: requests under no rule and under a latency rule,  *)
(* whose client may close the connection while the handler is waiting      *)
(***************************************************************************)
ClientRuleSets == { <<>>, <<LatencyRule("r1", 200)>> }

InitClient ==
    /\ proxyConfig = GoodConfig
    /\ chaosRules \in ClientRuleSets
    /\ requestLogs = <<>>
    /\ tokenBuckets = <<>>
    /\ now = 0
    /\ reqs = <<>>
    /\ sent = <<>>
    /\ matchIn = <<>>
    /\ matchOut = <<>>
    /\ configOut = <<>>
    /\ logRun = <<>>
    /\ store = <<>>
    /\ bucketRun = <<>>
    /\ corruptRun = <<>>
    /\ clients = <<>>

NextClient ==
    \/ Receive
    \/ UpstreamResponds
    \/ UpstreamFails
    \/ SleepDone
    \/ ClientDisconnects
    \/ Tick

SpecClient == InitClient /\ [][NextClient]_vars

(***************************************************************************)
(* The push channel: WebSocket clients come and go while requests are      *)
(* proxied and logged                                                      *)
(***************************************************************************)
MaxClients == 2     \* WebSocket connections in one run

InitBroadcast ==
    /\ proxyConfig = GoodConfig
    /\ chaosRules = <<>>
    /\ requestLogs = <<>>
    /\ tokenBuckets = <<>>
    /\ now = 0
    /\ reqs = <<>>
    /\ sent = <<>>
    /\ matchIn = <<>>
    /\ matchOut = <<>>
    /\ configOut = <<>>
    /\ logRun = <<>>
    /\ store = <<>>
    /\ bucketRun = <<>>
    /\ corruptRun = <<>>
    /\ clients = <<>>

\* { type: 'connected', message: 'WebSocket connected' }
WelcomeMessage == [type |-> "connected"]

\* wss.on('connection'): the socket joins wss.clients and is sent the welcome
\* message; joined and left count the log entries appended before the socket
\* opened and before it closed
Subscribe ==
    /\ Len(clients) < MaxClients
    /\ clients' = Append(clients, [readyState |-> "OPEN",
                                   inbox |-> <<WelcomeMessage>>,
                                   joined |-> Len(requestLogs),
                                   left |-> Undefined])
    /\ UNCHANGED <<proxyConfig, chaosRules, requestLogs, tokenBuckets, now, reqs, sent,
                   matchIn, matchOut, configOut, aux>>

\* the socket closes: it is no longer OPEN
Unsubscribe ==
    /\ \E k \in DOMAIN clients :
          /\ clients[k].readyState = "OPEN"
          /\ clients' = [clients EXCEPT ![k].readyState = "CLOSED",
                                        ![k].left = Len(requestLogs)]
    /\ UNCHANGED <<proxyConfig, chaosRules, requestLogs, tokenBuckets, now, reqs, sent,
                   matchIn, matchOut, configOut, aux>>

NextBroadcast ==
    \/ Receive
    \/ UpstreamResponds
    \/ Subscribe
    \/ Unsubscribe

SpecBroadcast == InitBroadcast /\ [][NextBroadcast]_vars

(***************************************************************************)
(* Rules edited while requests are proxied: the control interface creates, *)
(* updates and deletes the rule r1 between the steps of the handlers       *)
(***************************************************************************)
EditRules == { TokenBucketRule("r1", 1, 1), LatencyRule("r1", 200), CorruptRule("r1") }

InitEdit ==
    /\ proxyConfig = GoodConfig
    /\ chaosRules \in {<<>>} \cup {<<r>> : r \in EditRules}
    /\ requestLogs = <<>>
    /\ tokenBuckets = <<>>
    /\ now = 0
    /\ reqs = <<>>
    /\ sent = <<>>
    /\ matchIn = <<>>
    /\ matchOut = <<>>
    /\ configOut = <<>>
    /\ logRun = <<>>
    /\ store = <<>>
    /\ bucketRun = <<>>
    /\ corruptRun = <<>>
    /\ clients = <<>>

HasRule(rules, id) == \E k \in DOMAIN rules : rules[k].id = id

\* createRule: chaosRules.set(rule.id, { ...rule }) for an id that is not stored
RuleCreated ==
    /\ \E r \in EditRules :
          /\ ~HasRule(chaosRules, r.id)
          /\ chaosRules' = Append(chaosRules, r)
    /\ UNCHANGED <<proxyConfig, requestLogs, tokenBuckets, now, reqs, sent,
                   matchIn, matchOut, configOut, aux, clients>>

\* updateRule: chaosRules.set(id, { ...existing, ...updates, id }) keeps the
\* rule's place
RuleUpdated ==
    /\ \E r \in EditRules, k \in DOMAIN chaosRules :
          /\ chaosRules[k].id = r.id
          /\ chaosRules[k] # r
          /\ chaosRules' = [chaosRules EXCEPT ![k] = r]
    /\ UNCHANGED <<proxyConfig, requestLogs, tokenBuckets, now, reqs, sent,
                   matchIn, matchOut, configOut, aux, clients>>

\* deleteRule: chaosRules.delete(id), and nothing else
RuleDeleted ==
    /\ \E k \in DOMAIN chaosRules :
          chaosRules' = [j \in 1..(Len(chaosRules) - 1) |->
                            IF j < k THEN chaosRules[j] ELSE chaosRules[j + 1]]
    /\ UNCHANGED <<proxyConfig, requestLogs, tokenBuckets, now, reqs, sent,
                   matchIn, matchOut, configOut, aux, clients>>

NextEdit ==
    \/ Receive
    \/ UpstreamResponds
    \/ SleepDone
    \/ RuleCreated
    \/ RuleUpdated
    \/ RuleDeleted

SpecEdit == InitEdit /\ [][NextEdit]_vars

(***************************************************************************)
(* The proxy under one latency rule: a fixed delay, a delay of 0, or a     *)
(* range with and without its bounds                                       *)
(***************************************************************************)
RangeRule(id, min, max) ==
    [BaseRule(id, "latency", AnyPath, Wildcard) EXCEPT !.latencyMinMs = min,
                                                       !.latencyMaxMs = max]

LatencyRuleSets ==
    { <<LatencyRule("r1", 200)>>,
      <<LatencyRule("r1", 0)>>,
      <<RangeRule("r1", Undefined, Undefined)>>,
      <<RangeRule("r1", 10, 20)>>,
      <<RangeRule("r1", Undefined, 300)>> }

InitLatency ==
    /\ proxyConfig = GoodConfig
    /\ chaosRules \in LatencyRuleSets
    /\ requestLogs = <<>>
    /\ tokenBuckets = <<>>
    /\ now = 0
    /\ reqs = <<>>
    /\ sent = <<>>
    /\ matchIn = <<>>
    /\ matchOut = <<>>
    /\ configOut = <<>>
    /\ logRun = <<>>
    /\ store = <<>>
    /\ bucketRun = <<>>
    /\ corruptRun = <<>>
    /\ clients = <<>>

NextLatency ==
    \/ Receive
    \/ UpstreamResponds
    \/ SleepDone

SpecLatency == InitLatency /\ [][NextLatency]_vars

\* the rule matched for the request is a drop-rate rule with the given failRate
C21_DropRate(req, failRate) ==
    /\ req.matchedRule # <<>>
    /\ req.matchedRule[1].chaosType = "rate-limit"
    /\ req.matchedRule[1].failRate = failRate

\* C21: under a matched drop-rate rule, failRate 0 never records
\* drop_rate:triggered and the request goes to upstream; failRate 100 always
\* records it, and the request is answered 429 without an upstream call.
C21_DropRateBoundaries ==
    \A i \in DOMAIN reqs :
        /\ C21_DropRate(reqs[i], 0) =>
              /\ ~HasAction(reqs[i], "drop_rate:triggered")
              /\ HasAction(reqs[i], "drop_rate:passed")
              /\ reqs[i].upstreamCalls = 1
        /\ C21_DropRate(reqs[i], 100) =>
              /\ HasAction(reqs[i], "drop_rate:triggered")
              /\ reqs[i].pc = "responded"
              /\ reqs[i].response[1].statusCode = 429
              /\ reqs[i].upstreamCalls = 0

\* a request under failRate 0 was answered from upstream
C21_Witness ==
    \E i \in DOMAIN reqs :
        /\ C21_DropRate(reqs[i], 0)
        /\ reqs[i].pc = "responded"
        /\ reqs[i].up # <<>>
        /\ reqs[i].response[1].statusCode = reqs[i].up[1].status

\* C22: while config.enabled is false a proxied request bypasses the pipeline:
\* no rule is matched, no token bucket is created or changed, the first action
\* is chaos:disabled, the log entry has chaosApplied false, and the request goes
\* to upstream whatever rules are stored.
C22_DisabledBypassesPipeline ==
    /\ [](~ChaosEnabled(proxyConfig) =>
            \A i \in DOMAIN reqs :
                /\ reqs[i].preRuns = 0
                /\ reqs[i].matches = 0
                /\ reqs[i].samples = 0
                /\ reqs[i].consumes = 0
                /\ reqs[i].matchedRule = <<>>
                /\ reqs[i].actionsApplied[1] = Act("chaos:disabled", "", 0)
                /\ reqs[i].actionsApplied[2] = Act("upstream:request", "", 0)
                /\ ~reqs[i].logEntry[1].chaosApplied
                /\ reqs[i].upstreamCalls = 1
                /\ reqs[i].pc \in {"upstream", "responded"}
                /\ reqs[i].pc = "responded" => reqs[i].up # <<>> \/ HasAction(reqs[i], "upstream:error"))
    /\ [][~ChaosEnabled(proxyConfig) => tokenBuckets' = tokenBuckets]_vars

\* with chaos off, a request that a stored token-bucket rule with a filled
\* registry would have matched was answered from upstream
C22_Witness ==
    /\ ~ChaosEnabled(proxyConfig)
    /\ Len(chaosRules) = 1
    /\ chaosRules[1].chaosType = "token-bucket"
    /\ tokenBuckets # <<>>
    /\ \E i \in DOMAIN reqs :
          /\ reqs[i].method = "GET"
          /\ reqs[i].pc = "responded"
          /\ reqs[i].up # <<>>
          /\ reqs[i].logEntry[1].actionsApplied =
                <<Act("chaos:disabled", "", 0), Act("upstream:request", "", 0),
                  Act("upstream", "", reqs[i].up[1].status)>>

\* the pre-upstream decision for the request was terminal: a forced error, a
\* timeout hang, a triggered drop rate or a blocked token bucket
C23_Terminal(req) ==
    \/ req.matchedRule # <<>> /\ req.matchedRule[1].chaosType \in {"error", "timeout"}
    \/ HasAction(req, "error")
    \/ HasAction(req, "timeout:triggered")
    \/ HasAction(req, "drop_rate:triggered")
    \/ HasAction(req, "token_bucket:blocked")

C24_LogStatusInRange ==
    \A k \in DOMAIN requestLogs :
        \/ LogEntries[k].statusCode = StatusTimeout
        \/ /\ LogEntries[k].statusCode.tag = "number"
           /\ LogEntries[k].statusCode.n >= 100
           /\ LogEntries[k].statusCode.n <= 599

\* the parsed value is an array or object with at least one element
C25_NonEmptyContainer(v) ==
    v.ok /\ v.kind \in {"array", "object"} /\ Len(v.vals) > 0

\* out is from with one top-level element removed
C25_OneRemoved(from, out) ==
    /\ Len(out.vals) = Len(from.vals) - 1
    /\ \E j \in DOMAIN from.vals :
          /\ out.vals = WithoutIndex(from.vals, j)
          /\ from.kind = "object" => out.keys = WithoutIndex(from.keys, j)

\* out is from with one top-level element set to null
C25_OneNulled(from, out) ==
    /\ out.keys = from.keys
    /\ Len(out.vals) = Len(from.vals)
    /\ \E j \in DOMAIN from.vals :
          /\ out.vals[j] = NullText
          /\ from.vals[j] # NullText
          /\ \A k \in DOMAIN from.vals : k # j => out.vals[k] = from.vals[k]

\* C25: corruptJsonBody does not throw, and for a body that is valid JSON with a
\* non-empty object or array at the top it returns valid JSON that differs from
\* the body by exactly one top-level element, removed or set to null.
C25_CorruptsOneElement ==
    (corruptRun # <<>> /\ corruptRun.out # <<>>
        /\ C25_NonEmptyContainer(JsonParse(corruptRun.body))) =>
        /\ JsonParse(corruptRun.out[1].result.body).ok
        /\ JsonParse(corruptRun.out[1].result.body).kind = JsonParse(corruptRun.body).kind
        /\ \/ C25_OneRemoved(JsonParse(corruptRun.body),
                             JsonParse(corruptRun.out[1].result.body))
           \/ C25_OneNulled(JsonParse(corruptRun.body),
                            JsonParse(corruptRun.out[1].result.body))

\* why the specification has a body skipped: "" when it is to be corrupted
C26_SkipReason(v) ==
    IF ~v.ok THEN "parse_error"
    ELSE IF v.kind = "scalar" THEN "primitive_value"
    ELSE IF Len(v.vals) > 0 THEN ""
    ELSE IF v.kind = "array" THEN "empty_array"
    ELSE "empty_object"

\* C26: for a body that does not parse, that parses to a primitive, or that
\* parses to an empty array or object, corruptJsonBody returns the body unchanged
\* with the action corrupt_json:skipped(reason=...) naming which.
C26_SkipsWhatItCannotCorrupt ==
    (corruptRun # <<>> /\ corruptRun.out # <<>>
        /\ C26_SkipReason(JsonParse(corruptRun.body)) # "") =>
        /\ corruptRun.out[1].result.body = corruptRun.body
        /\ corruptRun.out[1].result.action =
              Act("corrupt_json:skipped", C26_SkipReason(JsonParse(corruptRun.body)), 0)

\* the pipeline stage that records an action with the given tag
C27_Stage(tag) ==
    CASE tag \in {"match", "match:no_rule", "chaos:disabled"} -> 1
      [] tag \in {"drop_rate:triggered", "drop_rate:passed", "token_bucket:passed",
                  "token_bucket:blocked", "timeout:triggered", "error"} -> 2
      [] tag = "upstream:request" -> 3
      [] tag \in {"upstream", "upstream:error"} -> 4
      [] tag \in {"latency", "corrupt_json"} -> 5
      [] OTHER -> 0

\* the request was answered with what upstream answered
C27_Answered(req) == req.pc = "responded" /\ req.up # <<>>

\* C27: the actions of a request are in pipeline order: first match:<name>,
\* match:no_rule or chaos:disabled, then the pre-upstream stage's action, then
\* upstream:request, then upstream:<status>, and latency or corrupt_json only
\* after upstream:<status>.  With no rule to match the actions are [match:no_rule (or
\* chaos:disabled), upstream:request, upstream:<status>]; under a latency rule of
\* 200 ms they are [match:<name>, upstream:request, upstream:<status>,
\* latency:200ms].
C27_ActionsInPipelineOrder ==
    \A i \in DOMAIN reqs :
        LET actions == reqs[i].actionsApplied IN
        /\ actions # <<>> => C27_Stage(actions[1].tag) = 1
        /\ \A k \in DOMAIN actions :
              /\ C27_Stage(actions[k].tag) # 0
              /\ k > 1 => C27_Stage(actions[k - 1].tag) < C27_Stage(actions[k].tag)
              /\ C27_Stage(actions[k].tag) = 4 => actions[k - 1].tag = "upstream:request"
              /\ C27_Stage(actions[k].tag) = 5 => actions[k - 1].tag = "upstream"
        /\ (C27_Answered(reqs[i]) /\ reqs[i].matchedRule = <<>>) =>
              /\ actions = <<IF reqs[i].enabled THEN Act("match:no_rule", "", 0)
                             ELSE Act("chaos:disabled", "", 0),
                             Act("upstream:request", "", 0),
                             Act("upstream", "", reqs[i].up[1].status)>>
              /\ reqs[i].logEntry[1].actionsApplied = actions
        /\ (C27_Answered(reqs[i]) /\ reqs[i].matchedRule # <<>>
              /\ reqs[i].matchedRule[1].chaosType = "latency") =>
              /\ actions = <<Act("match", reqs[i].matchedRule[1].name, 0),
                             Act("upstream:request", "", 0),
                             Act("upstream", "", reqs[i].up[1].status),
                             Act("latency", "", reqs[i].matchedRule[1].latencyMs)>>
              /\ reqs[i].logEntry[1].actionsApplied = actions

\* under the latency rule of 200 ms a request was answered 200 after its sleep
C27_Witness ==
    \E i \in DOMAIN reqs :
        /\ C27_Answered(reqs[i])
        /\ reqs[i].up[1].status = 200
        /\ reqs[i].actionsApplied =
              <<Act("match", "r1", 0), Act("upstream:request", "", 0),
                Act("upstream", "", 200), Act("latency", "", 200)>>

\* C28: when the upstream call fails the client receives a 502 JSON response,
\* upstream:error:<code> is recorded right after upstream:request, and one log
\* entry with statusCode 502 and chaosDetails "Proxy error: <message>" is appended
\* and broadcast.
C28_UpstreamFailureIs502 ==
    \A i \in DOMAIN reqs :
        HasAction(reqs[i], "upstream:error") =>
            LET actions == reqs[i].actionsApplied
                entry == reqs[i].logEntry[1]
            IN
            /\ reqs[i].pc = "responded"
            /\ reqs[i].response[1].statusCode = 502
            /\ reqs[i].response[1].body.error
            /\ actions[Len(actions)].tag = "upstream:error"
            /\ actions[Len(actions)].s # ""
            /\ actions[Len(actions) - 1] = Act("upstream:request", "", 0)
            /\ entry.statusCode = StatusNum(502)
            /\ entry.chaosDetails = <<"Proxy error: ", reqs[i].response[1].body.message>>
            /\ entry.actionsApplied = actions
            /\ TimesLogged(i) = 1
            /\ TimesSent(i) = 1
            /\ \E k \in DOMAIN sent : sent[k] = NewLogMessage(entry)

\* a request whose upstream host did not resolve was answered 502 and logged
C28_Witness ==
    \E i \in DOMAIN reqs :
        /\ reqs[i].pc = "responded"
        /\ reqs[i].actionsApplied[Len(reqs[i].actionsApplied)] =
              Act("upstream:error", "ENOTFOUND", 0)
        /\ reqs[i].response[1] =
              Wire(502, <<>>, [error |-> TRUE, message |-> "DNS resolution failed"])
        /\ \E k \in DOMAIN requestLogs : requestLogs[k] = i

\* C29: every proxied request eventually reaches one final state, responded,
\* reset or aborted, and stays in it, given that timers fire and the upstream
\* call returns or fails; a request that is answered has a whole HTTP response,
\* and only a timeout hang ends in a socket reset.
C29_EveryRequestEnds ==
    /\ []<>(\A i \in DOMAIN reqs : reqs[i].pc \in Final)
    /\ [][\A i \in DOMAIN reqs :
            reqs[i].pc \in Final => reqs'[i].pc = reqs[i].pc]_vars
    /\ [](\A i \in DOMAIN reqs :
            /\ reqs[i].pc \in Final \cup {"upstream", "sleep", "hang"}
            /\ reqs[i].pc = "responded" =>
                  /\ reqs[i].response # <<>>
                  /\ reqs[i].response[1].statusCode >= 100
                  /\ reqs[i].response[1].statusCode <= 599
            /\ reqs[i].pc \in {"reset", "aborted"} =>
                  /\ reqs[i].matchedRule # <<>>
                  /\ reqs[i].matchedRule[1].chaosType = "timeout"
                  /\ reqs[i].response = <<>>)

\* C30: once the client of a request has disconnected during the upstream call
\* or the latency sleep, the pending work is cancelled: nothing more is done on
\* the request's behalf, so its handler does not resume and no response is
\* written for it.
C30_DisconnectCancels ==
    [][\A i \in DOMAIN reqs : reqs[i].closed => reqs'[i] = reqs[i]]_vars

\* the request was put on hold by a timeout rule
C31_Held(req) ==
    /\ req.matchedRule # <<>>
    /\ req.matchedRule[1].chaosType = "timeout"
    /\ req.timerMs # Undefined

\* C31: once the client of a hanging request has closed the connection before
\* destroyTimer fired, the timer is cancelled: the socket of that request is
\* never destroyed by the timer afterwards and nothing more happens to the
\* request, however the close and the expiry are interleaved.
C31_CloseCancelsTimer ==
    [][\A i \in DOMAIN reqs :
          (C31_Held(reqs[i]) /\ reqs[i].closed /\ reqs[i].pc # "reset") =>
             /\ reqs'[i].pc # "reset"
             /\ reqs'[i] = reqs[i]]_vars

\* a client left a hang early and the time of the timer has passed since
C31_Witness ==
    \E i \in DOMAIN reqs :
        /\ C31_Held(reqs[i])
        /\ reqs[i].closed
        /\ reqs[i].pc = "aborted"
        /\ now > reqs[i].deadline

\* the requests whose entries were appended while the client was connected, in
\* the order of the appends
C32_AppendedFor(client) ==
    SubSeq(requestLogs, client.joined + 1,
           IF client.left = Undefined THEN Len(requestLogs) ELSE client.left)

\* the requests of the new-log messages the client was sent, in order
C32_ReceivedBy(client) ==
    [k \in 1..(Len(client.inbox) - 1) |-> client.inbox[k + 1].log.id]

\* C32: every log entry the forwarder appends is broadcast once as a new-log
\* message to every client connected at that time, and each client receives
\* the entries in the order in which they were appended, also when requests
\* overlap.
C32_BroadcastMirrorsAppends ==
    \A c \in DOMAIN clients :
        /\ \A k \in 2..Len(clients[c].inbox) : clients[c].inbox[k].type = "new-log"
        /\ C32_ReceivedBy(clients[c]) = C32_AppendedFor(clients[c])
        /\ \A k \in 2..Len(clients[c].inbox) :
              \E m \in DOMAIN sent : clients[c].inbox[k] = sent[m]

\* a client received the entries of two overlapping requests that ended in the
\* reverse order of their arrival, while another client missed the first of them
C32_Witness ==
    /\ Len(requestLogs) = 2
    /\ requestLogs[1] = 2
    /\ \E c \in DOMAIN clients : Len(clients[c].inbox) = 3
    /\ \E c \in DOMAIN clients : Len(clients[c].inbox) = 2

\* the tokens left in a bucket of the given burst that was created full and
\* asked for one token at once
C33_FullMinusOne(burst) == IF burst >= 1 THEN (burst - 1) * Milli ELSE 0

\* C33: token buckets live as long as their rule: a bucket that is created
\* starts full (tokens = burst), and deleting a rule destroys its buckets, so
\* that no bucket of a rule that is not stored remains and a rule created
\* later under the same id starts with a full bucket.
C33_BucketsLiveWithTheirRule ==
    /\ [](\A key \in DOMAIN tokenBuckets : HasRule(chaosRules, key[2]))
    /\ [][\A key \in DOMAIN tokenBuckets' :
             key \notin DOMAIN tokenBuckets =>
                tokenBuckets'[key].tokens = C33_FullMinusOne(tokenBuckets'[key].burst)]_vars

\* the corrupt_json:* entries among a request's actions
C34_CorruptActions(req) ==
    {k \in DOMAIN req.actionsApplied : req.actionsApplied[k].tag = "corrupt_json"}

\* the response carries the header X-Chaos-Corrupted
C34_Marked(resp) ==
    \E h \in DOMAIN resp.headers : resp.headers[h].name = "X-Chaos-Corrupted"

\* C34: a response whose JSON body a corrupt rule corrupted carries the header
\* X-Chaos-Corrupted: 1 and its request has exactly one corrupt_json:* action;
\* a response that was not corrupted has neither the header nor such an action.
C34_CorruptedResponsesAreMarked ==
    \A i \in DOMAIN reqs :
        (reqs[i].pc = "responded" /\ reqs[i].response # <<>>) =>
            IF reqs[i].up # <<>> /\ reqs[i].response[1].body = "corrupted"
            THEN /\ \E h \in DOMAIN reqs[i].response[1].headers :
                       reqs[i].response[1].headers[h] =
                          [name |-> "X-Chaos-Corrupted", value |-> "1"]
                 /\ Cardinality(C34_CorruptActions(reqs[i])) = 1
            ELSE /\ ~C34_Marked(reqs[i].response[1])
                 /\ C34_CorruptActions(reqs[i]) = {}

\* the body lacks one of the fields POST /rules requires
C35_Incomplete(body) ==
    \/ ~Truthy(body, "name", "")
    \/ ~Truthy(body, "pathPattern", <<>>)
    \/ ~Truthy(body, "chaosType", "")

\* the route's result answers the given status and leaves every stored rule as
\* it is
C35_Refuses(res, status) ==
    /\ res.status = status
    /\ StoredRules(res.st) = StoredRules(store)

\* C35: management operations that fail leave the stored rules unchanged: POST
\* /rules without name, pathPattern or chaosType answers 400 and creates no
\* rule; GET, PUT and DELETE /rules/:id for an id that is not stored answer 404
\* and change no rule.
C35_FailedOperationsChangeNothing ==
    /\ [](/\ \A body \in PostBodies :
                C35_Incomplete(body) => C35_Refuses(PostRules(store, body, now), 400)
          /\ \A id \in {"nope", "r9"} \ StoreKeys :
                /\ C35_Refuses(GetRuleById(store, id), 404)
                /\ C35_Refuses(DeleteRules(store, id), 404)
                /\ \A body \in PutBodies : C35_Refuses(PutRules(store, id, body), 404))
    /\ [][store'.status \in {400, 404} => chaosRules' = chaosRules]_vars

\* with rules stored, a POST was refused with 400 and left them all
C35_Witness ==
    /\ store # <<>>
    /\ store.last = "post"
    /\ store.status = 400
    /\ Len(chaosRules) = 2

\* the bucket's tokens after the refill of a call made now with the rule's
\* current rps and burst: a bucket that did not exist is created full
C36_Refilled ==
    IF RunKey \in DOMAIN tokenBuckets
    THEN Min(bucketRun.burst * Milli,
             tokenBuckets[RunKey].tokens
                + (now - tokenBuckets[RunKey].lastRefill) * bucketRun.rps)
    ELSE bucketRun.burst * Milli

\* C36: after every tryConsume on a bucket with rps >= 0 and burst >= 0 under
\* a clock that does not go back, 0 <= tokens <= burst holds, also after the
\* rule was edited to a burst below the tokens the bucket held; a call that is
\* allowed leaves one token less than the refill gave, and a call that is
\* blocked leaves what the refill gave.
C36_TokensWithinBurst ==
    /\ [](RunKey \in DOMAIN tokenBuckets =>
             /\ tokenBuckets[RunKey].tokens >= 0
             /\ tokenBuckets[RunKey].tokens <= tokenBuckets[RunKey].burst * Milli)
    /\ [][bucketRun'.calls = bucketRun.calls + 1 =>
             /\ tokenBuckets'[RunKey].burst = bucketRun.burst
             /\ tokenBuckets'[RunKey].tokens <= bucketRun.burst * Milli
             /\ IF bucketRun'.allowed = bucketRun.allowed + 1
                THEN /\ C36_Refilled >= Milli
                     /\ tokenBuckets'[RunKey].tokens = C36_Refilled - Milli
                ELSE /\ C36_Refilled < Milli
                     /\ tokenBuckets'[RunKey].tokens = C36_Refilled]_vars

\* two calls at the same instant were both allowed on a bucket that now has
\* burst 1: the rule had a larger burst at the first call and was edited since
C36_Witness ==
    /\ bucketRun # <<>>
    /\ bucketRun.calls = 2
    /\ bucketRun.allowed = 2
    /\ bucketRun.last = bucketRun.first
    /\ RunKey \in DOMAIN tokenBuckets
    /\ tokenBuckets[RunKey].burst = 1
    /\ tokenBuckets[RunKey].tokens = 0

\* the latency:<ms>ms actions among a request's actions
C37_LatencyActions(req) ==
    {k \in DOMAIN req.actionsApplied : req.actionsApplied[k].tag = "latency"}

\* ms is a delay the rule allows: latencyMs when set, else a value from
\* latencyMinMs (default 100) to latencyMaxMs (default 1000)
C37_DelayOf(rule, ms) ==
    IF rule.latencyMs # Undefined THEN ms = rule.latencyMs
    ELSE /\ ms >= Coalesce(rule.latencyMinMs, 100)
         /\ ms <= Coalesce(rule.latencyMaxMs, 1000)

\* the request matched a latency rule and its upstream call returned
C37_Delayed(req) ==
    /\ req.matchedRule # <<>>
    /\ req.matchedRule[1].chaosType = "latency"
    /\ req.up # <<>>

\* C37: a request matched by a latency rule whose upstream call returned has
\* exactly one latency:<ms>ms action, also when the delay is 0; the delay is
\* latencyMs when set and otherwise lies in [latencyMinMs, latencyMaxMs] with
\* the defaults 100 and 1000; the action follows the upstream's, and the
\* response is written only when the delay is over.
C37_OneLatencyAction ==
    \A i \in DOMAIN reqs :
        C37_Delayed(reqs[i]) =>
            /\ Cardinality(C37_LatencyActions(reqs[i])) = 1
            /\ \A k \in C37_LatencyActions(reqs[i]) :
                  /\ C37_DelayOf(reqs[i].matchedRule[1], reqs[i].actionsApplied[k].n)
                  /\ k > 1
                  /\ reqs[i].actionsApplied[k - 1].tag = "upstream"
                  /\ reqs[i].pc = "sleep" => reqs[i].response = <<>>
                  /\ reqs[i].pc = "responded" =>
                        reqs[i].logEntry[1].responseTime >= reqs[i].actionsApplied[k].n

\* the rule the request matched before its upstream call has the given type
C38_Matched(req, type) ==
    req.matchedRule # <<>> /\ req.matchedRule[1].chaosType = type

\* C38: when rules are created, updated or deleted while a request is in its
\* upstream call, the request completes with the effects of the rule it
\* matched before the call, the one its log entry names: the delay is that
\* rule's, the body is corrupted only under that rule, and a request that
\* matched no rule is neither delayed nor corrupted.
C38_EffectsOfTheMatchedRule ==
    \A i \in DOMAIN reqs :
        (reqs[i].up # <<>> /\ reqs[i].pc \in {"sleep", "responded"}) =>
            /\ reqs[i].logEntry[1].chaosRuleId =
                  (IF reqs[i].matchedRule = <<>> THEN "" ELSE reqs[i].matchedRule[1].id)
            /\ IF C38_Matched(reqs[i], "latency")
               THEN \A k \in C37_LatencyActions(reqs[i]) :
                       reqs[i].actionsApplied[k].n = reqs[i].matchedRule[1].latencyMs
               ELSE C37_LatencyActions(reqs[i]) = {} /\ reqs[i].pc # "sleep"
            /\ C38_Matched(reqs[i], "latency") =>
                  Cardinality(C37_LatencyActions(reqs[i])) = 1
            /\ (C34_CorruptActions(reqs[i]) # {}) =>
                  C38_Matched(reqs[i], "corrupt")
            /\ (reqs[i].pc = "responded" /\ C38_Matched(reqs[i], "corrupt")
                  /\ reqs[i].up[1].json) => C34_CorruptActions(reqs[i]) # {}

\* POST /rules bodies that carry the parameters of their variant: the README's
\* token-bucket example, and a timeout rule
C39_Bodies ==
    { [RuleBody(Required \cup {"id", "rps", "burst"}, "tb", "token-bucket", <<>>, TRUE)
          EXCEPT !.val.rps = 2, !.val.burst = 1],
      [RuleBody(Required \cup {"id", "timeoutMs", "jitterMs"}, "to", "timeout", <<>>, TRUE)
          EXCEPT !.val.timeoutMs = 300, !.val.jitterMs = 0] }

\* the rule stored under id in the store st, as the pipeline reads it
C39_Stored(st, id) == RuleValue(st, st.map[KeyIndex(st.map, id)].obj)

\* what the pipeline does for GET /a under the rule alone, from no bucket
C39_Run(rule) == runPreProxyPipeline(<<rule>>, <<>>, now, <<"/", "a">>, "GET", 0)

\* C39: a rule created through POST /rules is stored with every parameter of
\* its variant that the request gave: a token-bucket rule keeps its rps and
\* burst and a timeout rule its timeoutMs and jitterMs, so that the pipeline
\* runs on the values given and not on the defaults (rps 10, burst = rps,
\* timeoutMs 8000, jitterMs 0).
C39_PostKeepsVariantParameters ==
    \A body \in C39_Bodies :
        LET res == PostRules(store, body, now) IN
        /\ res.status = 201
        /\ KeyIndex(res.st.map, body.val.id) # 0
        /\ C39_Stored(res.st, body.val.id).rps = body.val.rps
        /\ C39_Stored(res.st, body.val.id).burst = body.val.burst
        /\ C39_Stored(res.st, body.val.id).timeoutMs = body.val.timeoutMs
        /\ C39_Stored(res.st, body.val.id).jitterMs = body.val.jitterMs
        /\ body.val.chaosType = "token-bucket" =>
              /\ C39_Run(C39_Stored(res.st, body.val.id)).buckets[BucketKey("GET", "tb")].rps
                    = body.val.rps
              /\ C39_Run(C39_Stored(res.st, body.val.id)).buckets[BucketKey("GET", "tb")].burst
                    = body.val.burst
        /\ body.val.chaosType = "timeout" =>
              C39_Run(C39_Stored(res.st, body.val.id)).durationMs = body.val.timeoutMs

(***************************************************************************)
(* The proxy under every terminal path, the upstream answering with any    *)
(* head                                                                    *)
(***************************************************************************)

\* upstream answers, among them one that announces trailers
AllUpstreamResults ==
    UpstreamResults \cup {[status |-> 200, json |-> TRUE, trailer |-> TRUE]}

\* one rule per terminal path: none, immediate response, hang, delay, corruption
WriteRuleSets ==
    { <<>>, <<ErrorRule("r1", 503, "nope")>>, <<TimeoutRule("r1", AnyPath, 300, Undefined)>>,
      <<LatencyRule("r1", 200)>>, <<CorruptRule("r1")>> }

InitWrite ==
    /\ proxyConfig = GoodConfig
    /\ chaosRules \in WriteRuleSets
    /\ requestLogs = <<>>
    /\ tokenBuckets = <<>>
    /\ now = 0
    /\ reqs = <<>>
    /\ sent = <<>>
    /\ matchIn = <<>>
    /\ matchOut = <<>>
    /\ configOut = <<>>
    /\ logRun = <<>>
    /\ store = <<>>
    /\ bucketRun = <<>>
    /\ corruptRun = <<>>
    /\ clients = <<>>

\* fetch() and arrayBuffer() resolve, with any of the answers
UpstreamRespondsAnyHead == UpstreamRespondsWith(AllUpstreamResults)

NextWrite ==
    \/ Receive
    \/ UpstreamRespondsAnyHead
    \/ UpstreamFails
    \/ SleepDone
    \/ TimerFires
    \/ ClientCloses

SpecWrite == InitWrite /\ [][NextWrite]_vars

\* C40: no proxied request appends more than one log entry: on every path
\* through the handler (immediate response, hang, upstream success, upstream
\* error, and an error raised while the response is written after the success
\* entry was logged) the log collection holds at most one entry per request.
C40_AtMostOneEntry ==
    \A i \in DOMAIN reqs : TimesLogged(i) <= 1

====
